---- MODULE Spec2Model ----
(***************************************************************************)
(* Verification model of the qmaster backup engine (core/backup_engine.py) *)
(* and of its tiered retention planner (utils/retention_manager.py).       *)
(*                                                                         *)
(* Time is counted in ticks of half an hour from 2024-01-01 00:00, which   *)
(* is a Monday, so that the ISO week of a day is its Monday-based week     *)
(* index.                                                                  *)
(***************************************************************************)
EXTENDS Integers, Sequences, FiniteSets, TLC

(***************************************************************************)
(* Calendar                                                                *)
(***************************************************************************)
TicksPerHour == 2

TicksPerDay == 48

\* datetime.date(): the day index of a tick
DateOf(t) == t \div TicksPerDay

\* the clock hour of a tick
HourOf(t) == t \div TicksPerHour

\* datetime.isocalendar()[:2]: day 0 is a Monday, so the (ISO year, ISO week)
\* pair of a day is determined by, and determines, its Monday-based week index
IsoWeekOf(t) == DateOf(t) \div 7

\* datetime.year, for 2024 (leap) .. 2027
YearOf(t) ==
    LET d == DateOf(t)
    IN  IF d < 366 THEN 2024 ELSE 2025 + ((d - 366) \div 365)

\* datetime.month
MonthOf(t) ==
    \* cumulative days before the end of each month
    LET MonthEnds(leap) ==
            IF leap THEN <<31, 60, 91, 121, 152, 182, 213, 244, 274, 305, 335, 366>>
                    ELSE <<31, 59, 90, 120, 151, 181, 212, 243, 273, 304, 334, 365>>
    \* day of the year, 0-based
        DayOfYear(u) ==
            LET d == DateOf(u)
            IN  IF d < 366 THEN d ELSE (d - 366) % 365
        ends == MonthEnds(YearOf(t) = 2024)
        doy  == DayOfYear(t)
    IN  CHOOSE m \in 1..12 :
            /\ doy < ends[m]
            /\ \A k \in 1..(m - 1) : doy >= ends[k]

\* timedelta.days of (now - t): floor of the age in days, negative for a
\* timestamp in the future
AgeDays(now, t) == (now - t) \div TicksPerDay

(***************************************************************************)
(* utils/retention_manager.py                                              *)
(***************************************************************************)
UNCATEGORIZED_ARCHIVE_KEEP == 3

tier_order == <<"hourly", "daily", "weekly", "monthly", "yearly">>

TierNames == {"hourly", "daily", "weekly", "monthly", "yearly"}

\* A sidecar as _get_backups_with_metadata sees it.  state is "ok" (a JSON
\* object), "corrupt" (json.load raises) or "missing".
NoSidecar ==
    [state |-> "missing", has_ts |-> FALSE, ts |-> 0, tags |-> {},
     keep_forever |-> FALSE, pinned |-> FALSE, importance |-> "normal"]

\* bool(tags or keep_forever or pinned or importance not in [None, "normal"])
TaggedOf(side) ==
    \/ side.tags # {}
    \/ side.keep_forever
    \/ side.pinned
    \/ side.importance \notin {"none", "normal"}

\* _get_backups_with_metadata over a directory listing: a sequence of
\* [name, mtime, side] in the order glob yields them
GetBackupsWithMetadata(listing) ==
    \* One entry of _get_backups_with_metadata for an artifact `name` with
    \* modification time `mtime` and sidecar `side`.
    LET BackupInfo(name, mtime, side) ==
            IF side.state = "ok"
            THEN [name |-> name,
                  timestamp |-> IF side.has_ts THEN side.ts ELSE mtime,
                  tagged |-> TaggedOf(side),
                  tier |-> "none"]
            ELSE [name |-> name, timestamp |-> mtime, tagged |-> FALSE, tier |-> "none"]
    IN  [i \in 1..Len(listing) |->
            BackupInfo(listing[i].name, listing[i].mtime, listing[i].side)]

\* insert b into a newest-first sequence behind every entry that is at least
\* as new (list.sort is stable)
RECURSIVE InsertNewestFirst(_, _)
InsertNewestFirst(s, b) ==
    IF s = <<>> THEN <<b>>
    ELSE IF Head(s).timestamp >= b.timestamp
         THEN <<Head(s)>> \o InsertNewestFirst(Tail(s), b)
         ELSE <<b>> \o s

\* backups.sort(key=timestamp, reverse=True)
RECURSIVE SortNewestFirst(_)
SortNewestFirst(s) ==
    IF s = <<>> THEN <<>>
    ELSE InsertNewestFirst(SortNewestFirst(SubSeq(s, 1, Len(s) - 1)), s[Len(s)])

SeqToSet(s) == {s[i] : i \in 1..Len(s)}

\* a tier test that applies the one-per-day rule to the hourly tier as well
FitsTier_hourly_one_per_day(tier_name, cfg, now, b, already) ==
    LET ts == b.timestamp
    IN  CASE tier_name = "hourly" ->
                /\ (now - ts) <= cfg.max_age * TicksPerHour
                /\ \A o \in SeqToSet(already) : DateOf(o.timestamp) # DateOf(ts)
          [] tier_name = "daily" ->
                /\ AgeDays(now, ts) <= cfg.max_age
                /\ \A o \in SeqToSet(already) : DateOf(o.timestamp) # DateOf(ts)
          [] tier_name = "weekly" ->
                /\ AgeDays(now, ts) <= cfg.max_age * 7
                /\ \A o \in SeqToSet(already) : IsoWeekOf(o.timestamp) # IsoWeekOf(ts)
          [] tier_name = "monthly" ->
                /\ AgeDays(now, ts) <= cfg.max_age * 30
                /\ \A o \in SeqToSet(already) :
                      <<YearOf(o.timestamp), MonthOf(o.timestamp)>> # <<YearOf(ts), MonthOf(ts)>>
          [] tier_name = "yearly" ->
                /\ AgeDays(now, ts) <= cfg.max_age * 365
                /\ \A o \in SeqToSet(already) : YearOf(o.timestamp) # YearOf(ts)

\* the age test and the one-per-period test of one tier
FitsTier(tier_name, cfg, now, b, already) ==
    LET ts == b.timestamp
    IN  CASE tier_name = "hourly" ->
                (now - ts) <= cfg.max_age * TicksPerHour
          [] tier_name = "daily" ->
                /\ AgeDays(now, ts) <= cfg.max_age
                /\ \A o \in SeqToSet(already) : DateOf(o.timestamp) # DateOf(ts)
          [] tier_name = "weekly" ->
                /\ AgeDays(now, ts) <= cfg.max_age * 7
                /\ \A o \in SeqToSet(already) : IsoWeekOf(o.timestamp) # IsoWeekOf(ts)
          [] tier_name = "monthly" ->
                /\ AgeDays(now, ts) <= cfg.max_age * 30
                /\ \A o \in SeqToSet(already) :
                      <<YearOf(o.timestamp), MonthOf(o.timestamp)>> # <<YearOf(ts), MonthOf(ts)>>
          [] tier_name = "yearly" ->
                /\ AgeDays(now, ts) <= cfg.max_age * 365
                /\ \A o \in SeqToSet(already) : YearOf(o.timestamp) # YearOf(ts)

\* an inner loop that does not skip the backups already assigned
RECURSIVE FillTier_ignoring_assigned(_, _, _, _, _, _, _)
FillTier_ignoring_assigned(tier_name, cfg, now, backups, i, members, assigned) ==
    IF i > Len(backups) THEN <<members, assigned>>
    ELSE LET b == backups[i]
         IN  IF FitsTier(tier_name, cfg, now, b, members)
             THEN FillTier_ignoring_assigned(tier_name, cfg, now, backups, i + 1,
                           Append(members, [b EXCEPT !.tier = tier_name]),
                           assigned \cup {b.name})
             ELSE FillTier_ignoring_assigned(tier_name, cfg, now, backups, i + 1,
                           members, assigned)

\* the inner loop of _categorize_into_tiers for one tier: walks backups[i..]
\* and returns <<members of the tier, assigned names>>
RECURSIVE FillTier(_, _, _, _, _, _, _)
FillTier(tier_name, cfg, now, backups, i, members, assigned) ==
    IF i > Len(backups) THEN <<members, assigned>>
    ELSE LET b == backups[i]
         IN  IF b.name \notin assigned /\ FitsTier(tier_name, cfg, now, b, members)
             THEN FillTier(tier_name, cfg, now, backups, i + 1,
                           Append(members, [b EXCEPT !.tier = tier_name]),
                           assigned \cup {b.name})
             ELSE FillTier(tier_name, cfg, now, backups, i + 1, members, assigned)

\* the outer loop of _categorize_into_tiers over tier_order[k..]
RECURSIVE CategorizeFrom(_, _, _, _, _, _)
CategorizeFrom(k, tiers, now, backups, tiered, assigned) ==
    IF k > Len(tier_order)
    THEN [tiered EXCEPT !["uncategorized"] =
            SelectSeq([i \in 1..Len(backups) |->
                          [backups[i] EXCEPT !.tier = "uncategorized"]],
                      LAMBDA b : b.name \notin assigned)]
    ELSE LET tn == tier_order[k]
         IN  IF tn \notin DOMAIN tiers
             THEN CategorizeFrom(k + 1, tiers, now, backups, tiered, assigned)
             ELSE LET r == FillTier(tn, tiers[tn], now, backups, 1, <<>>, assigned)
                  IN  CategorizeFrom(k + 1, tiers, now, backups,
                                     [tiered EXCEPT ![tn] = r[1]], r[2])

\* _categorize_into_tiers(backups, tiers) at time now
CategorizeIntoTiers(backups, tiers, now) ==
    CategorizeFrom(1, tiers, now, backups,
                   [t \in TierNames \cup {"uncategorized"} |-> <<>>], {})

\* a tier rule that forgets the tagged backups
KeepInTier_ignoring_tags(b, i, keep_count, preserve_tagged) == i < keep_count

\* line 273: the backup at 0-based position i of its tier is kept
KeepInTier(b, i, keep_count, preserve_tagged) ==
    (preserve_tagged /\ b.tagged) \/ i < keep_count

\* a tier loop that counts the positions from one
RECURSIVE ApplyTierRule_counting_from_one(_, _, _, _, _)
ApplyTierRule_counting_from_one(tier_backups, i, keep_count, preserve_tagged, acc) ==
    IF i > Len(tier_backups) THEN acc
    ELSE LET b == tier_backups[i]
         IN  IF KeepInTier(b, i, keep_count, preserve_tagged)
             THEN ApplyTierRule_counting_from_one(tier_backups, i + 1, keep_count,
                        preserve_tagged, [acc EXCEPT !.keep = Append(@, b)])
             ELSE ApplyTierRule_counting_from_one(tier_backups, i + 1, keep_count,
                        preserve_tagged, [acc EXCEPT !.delete = Append(@, b)])

\* the per-tier loop of _apply_retention_rules over the newest-first tier
\* list, from (1-based) position i
RECURSIVE ApplyTierRule(_, _, _, _, _)
ApplyTierRule(tier_backups, i, keep_count, preserve_tagged, acc) ==
    IF i > Len(tier_backups) THEN acc
    ELSE LET b == tier_backups[i]
         IN  IF KeepInTier(b, i - 1, keep_count, preserve_tagged)
             THEN ApplyTierRule(tier_backups, i + 1, keep_count, preserve_tagged,
                                [acc EXCEPT !.keep = Append(@, b)])
             ELSE ApplyTierRule(tier_backups, i + 1, keep_count, preserve_tagged,
                                [acc EXCEPT !.delete = Append(@, b)])

\* the loop over the uncategorized backups
RECURSIVE ApplyUncategorized(_, _, _, _)
ApplyUncategorized(unc, i, preserve_tagged, acc) ==
    IF i > Len(unc) THEN acc
    ELSE LET b == unc[i]
             kept == Len(SelectSeq(acc.keep, LAMBDA x : x.tier = "uncategorized"))
         IN  IF preserve_tagged /\ b.tagged
             THEN ApplyUncategorized(unc, i + 1, preserve_tagged,
                                     [acc EXCEPT !.keep = Append(@, b)])
             ELSE IF kept < UNCATEGORIZED_ARCHIVE_KEEP
                  THEN ApplyUncategorized(unc, i + 1, preserve_tagged,
                                          [acc EXCEPT !.keep = Append(@, b)])
                  ELSE ApplyUncategorized(unc, i + 1, preserve_tagged,
                                          [acc EXCEPT !.delete = Append(@, b)])

\* the loop over tiers.items()
RECURSIVE ApplyTiersFrom(_, _, _, _, _)
ApplyTiersFrom(k, tiered, tiers, preserve_tagged, acc) ==
    IF k > Len(tier_order) THEN acc
    ELSE LET tn == tier_order[k]
         IN  IF tn \notin DOMAIN tiers
             THEN ApplyTiersFrom(k + 1, tiered, tiers, preserve_tagged, acc)
             ELSE ApplyTiersFrom(k + 1, tiered, tiers, preserve_tagged,
                     ApplyTierRule(SortNewestFirst(tiered[tn]), 1, tiers[tn].keep,
                                   preserve_tagged, acc))

\* _apply_retention_rules(tiered_backups, tiers, preserve_tagged)
\* -> [keep, delete]
ApplyRetentionRules(tiered, tiers, preserve_tagged) ==
    ApplyUncategorized(tiered["uncategorized"], 1, preserve_tagged,
        ApplyTiersFrom(1, tiered, tiers, preserve_tagged,
                       [keep |-> <<>>, delete |-> <<>>]))

\* lines 70-80 of apply_tiered_retention: listing -> sorted -> tiered -> plan
RetentionPlan(listing, tiers, preserve_tagged, now) ==
    LET backups == SortNewestFirst(GetBackupsWithMetadata(listing))
        tiered  == CategorizeIntoTiers(backups, tiers, now)
    IN  ApplyRetentionRules(tiered, tiers, preserve_tagged)

(***************************************************************************)
(* core/backup_engine.py: files, names, checksums                          *)
(*                                                                         *)
(* A file name is [dir, ts, tag, ext]: <dir>/<item>/<item>_<ts>_<tag>.<ext> *)
(* with dir one of projects, databases, git.  The complete backup and the  *)
(* latest links have no timestamp in their name (ts = 0).  A directory     *)
(* tree is a function from the names of its files to the files.            *)
(***************************************************************************)
DEFAULT_PROJECT_RETENTION_DAYS == 30

DEFAULT_DATABASE_RETENTION_DAYS == 14

NoPath == [dir |-> "", ts |-> 0, tag |-> "", ext |-> ""]

\* the bytes of an artifact: the archive members (path -> version of the
\* file) and whether the bytes were altered after they were written
NoBytes == [members |-> <<>>, taint |-> 0]

\* _calculate_file_checksum: SHA-256 of the bytes (collision free)
Checksum(bytes) == [algo |-> "sha256", of |-> bytes]

\* "checksum_sha256": None
NoChecksum == [algo |-> "none", of |-> NoBytes]

\* the content of a sidecar; state is "ok", or "corrupt" for a file that is
\* not a JSON object
NoMeta ==
    [state |-> "none", checksum |-> NoChecksum, timestamp |-> 0, tags |-> {},
     keep_forever |-> FALSE, pinned |-> FALSE, importance |-> "normal",
     backup_type |-> "", base_backup |-> NoPath]

DataFile(bytes, mtime) ==
    [kind |-> "data", bytes |-> bytes, mtime |-> mtime, meta |-> NoMeta, target |-> NoPath]

JsonFile(meta, mtime) ==
    [kind |-> "json", bytes |-> NoBytes, mtime |-> mtime, meta |-> meta, target |-> NoPath]

\* Path.unlink
Remove(fs, p) == [q \in (DOMAIN fs) \ {p} |-> fs[q]]

\* open(p, "w") and write
Put(fs, p, f) == (p :> f) @@ fs

\* the sidecar name of line 970, 137 and of retention_manager.py line 92:
\* name.replace(".tar.gz", ".json").replace(".sql.gz", ".json")
\*     .replace(".bundle", ".json"); a name without these is left as it is
MetaNameCreate(p) ==
    IF p.ext \in {"tar.gz", "sql.gz", "bundle"} THEN [p EXCEPT !.ext = "json"] ELSE p

\* _backup_name_to_meta_name: strip a known extension, else the last one
BackupNameToMetaName(p) == [p EXCEPT !.ext = "json"]

\* directory.glob("*.<ext>") without the symlinks
GlobArtifacts(fs, dir, exts) ==
    {p \in DOMAIN fs : p.dir = dir /\ p.ext \in exts /\ fs[p].kind # "link"}

\* one listing order of a set
RECURSIVE SomeOrder(_)
SomeOrder(S) ==
    IF S = {} THEN <<>>
    ELSE LET x == CHOOSE y \in S : TRUE IN <<x>> \o SomeOrder(S \ {x})

\* the orders that have to be told apart: the loops over a listing give
\* the same result in every order unless an unlink fails on the way
ListingOrders(S, bad) ==
    \* the orders in which a set can be listed
    LET Perms(X) ==
            {s \in [1..Cardinality(X) -> X] : \A i, j \in 1..Cardinality(X) : s[i] = s[j] => i = j}
    IN  IF bad = NoPath THEN {SomeOrder(S)} ELSE Perms(S)

\* the loop of _cleanup_old_backups over the listing `order`, from position
\* i; the unlink of the file named `bad` raises.  Returns [fs, raised].
RECURSIVE CleanupFrom(_, _, _, _, _)
CleanupFrom(fs, order, i, cutoff, bad) ==
    \* _cleanup_old_backups lines 1536-1558: preservation test on the sidecar
    LET ShouldPreserve(files, metadata_path) ==
            LET important_tags == {"production", "release", "stable", "live", "deployed"}
            IN  /\ metadata_path \in DOMAIN files
                /\ files[metadata_path].kind = "json"
                /\ files[metadata_path].meta.state = "ok"
                /\ LET md == files[metadata_path].meta
                   IN  \/ md.keep_forever \/ md.pinned
                       \/ md.importance \in {"critical", "high"}
                       \/ md.tags \cap important_tags # {}
    IN  IF i > Len(order) THEN [fs |-> fs, raised |-> FALSE]
        ELSE LET p  == order[i]
                 mp == BackupNameToMetaName(p)
             IN  IF ShouldPreserve(fs, mp)
                 THEN CleanupFrom(fs, order, i + 1, cutoff, bad)
                 \* line 1566: backup_file.stat() of a listed file that is gone raises
                 ELSE IF p \notin DOMAIN fs THEN [fs |-> fs, raised |-> TRUE]
                 ELSE IF ~(fs[p].mtime < cutoff)
                 THEN CleanupFrom(fs, order, i + 1, cutoff, bad)
                 ELSE IF p = bad THEN [fs |-> fs, raised |-> TRUE]
                 ELSE LET fs1 == Remove(fs, p)
                      IN  IF mp \notin DOMAIN fs1
                          THEN CleanupFrom(fs1, order, i + 1, cutoff, bad)
                          ELSE IF mp = bad THEN [fs |-> fs1, raised |-> TRUE]
                          ELSE CleanupFrom(Remove(fs1, mp), order, i + 1, cutoff, bad)

\* _cleanup_old_backups(directory, retention_days, patterns) at time now
CleanupOldBackups(fs, dir_exists, order, retention_days, now, bad) ==
    IF ~dir_exists THEN [fs |-> fs, raised |-> FALSE]
    ELSE CleanupFrom(fs, order, 1, now - (retention_days * TicksPerDay), bad)

\* _sync_to_secondary on the world w = [local, mirror, dirs]; fail names the
\* step that raises.  Returns [w, raised].
SyncToSecondary(w, path, sync_on, fail) ==
    \* _smart_copy: copy2 unless the destination has the same size and checksum
    LET SmartCopy(dst, p, f) ==
            IF p \in DOMAIN dst
               /\ dst[p].kind = f.kind /\ dst[p].bytes = f.bytes /\ dst[p].meta = f.meta
            THEN dst
            ELSE Put(dst, p, f)
    IN  IF ~sync_on THEN [w |-> w, raised |-> FALSE]
        ELSE IF fail = "sync_mkdir" THEN [w |-> w, raised |-> TRUE]
        ELSE LET dirs1 == w.dirs \cup {<<"sync", path.dir>>}
                 m1    == SmartCopy(w.mirror, path, w.local[path])
                 mp    == MetaNameCreate(path)
             IN  IF mp \notin DOMAIN w.local
                 THEN [w |-> [w EXCEPT !.dirs = dirs1, !.mirror = m1], raised |-> FALSE]
                 ELSE IF fail = "sync_meta"
                 THEN [w |-> [w EXCEPT !.dirs = dirs1, !.mirror = m1], raised |-> TRUE]
                 ELSE [w |-> [w EXCEPT !.dirs = dirs1,
                                       !.mirror = SmartCopy(m1, mp, w.local[mp])],
                       raised |-> FALSE]

\* line 970-971: where _create_backup_metadata writes the sidecar
SidecarPath(path) == MetaNameCreate(path)

\* _create_backup_metadata: checksum of the artifact, then the sidecar.
\* Returns [fs, raised].
CreateBackupMetadata(fs, path, now, extra, fail) ==
    IF path \notin DOMAIN fs \/ fail = "checksum"
    THEN [fs |-> fs, raised |-> TRUE]
    ELSE LET md == [state |-> "ok", checksum |-> Checksum(fs[path].bytes),
                    timestamp |-> now, tags |-> {}, keep_forever |-> FALSE,
                    pinned |-> FALSE, importance |-> "normal",
                    backup_type |-> extra.backup_type,
                    base_backup |-> extra.base_backup]
         IN  IF fail = "sidecar_write"
             THEN [fs |-> Put(fs, SidecarPath(path),
                              JsonFile([NoMeta EXCEPT !.state = "corrupt"], now)),
                   raised |-> TRUE]
             ELSE [fs |-> Put(fs, SidecarPath(path), JsonFile(md, now)),
                   raised |-> FALSE]

\* lines 216-220: the latest link; symlink_to raises when fail = "symlink"
UpdateLatest(fs, link, path, now, fail) ==
    LET LinkFile(target, mtime) ==
            [kind |-> "link", bytes |-> NoBytes, mtime |-> mtime, meta |-> NoMeta, target |-> target]
    IN  IF fail = "symlink" THEN [fs |-> Remove(fs, link), raised |-> TRUE]
        ELSE [fs |-> Put(Remove(fs, link), link, LinkFile(path, now)), raised |-> FALSE]

\* _run_retention_cleanup: the local directory, then the mirror directory
RunRetentionCleanup(w, dir, exts, retention_days, now, sync_on, order, bad) ==
    LET c1 == CleanupOldBackups(w.local, <<"local", dir>> \in w.dirs, order,
                                retention_days, now, bad)
    IN  IF c1.raised THEN [w |-> [w EXCEPT !.local = c1.fs], raised |-> TRUE]
        ELSE IF sync_on /\ <<"sync", dir>> \in w.dirs
        THEN LET c2 == CleanupOldBackups(w.mirror, TRUE,
                           SomeOrder(GlobArtifacts(w.mirror, dir, exts)),
                           retention_days, now, NoPath)
             IN  [w |-> [w EXCEPT !.local = c1.fs, !.mirror = c2.fs], raised |-> FALSE]
        ELSE [w |-> [w EXCEPT !.local = c1.fs], raised |-> FALSE]

\* _finalize_backup: chmod, sidecar with checksum, mirror, latest link,
\* retention cleanup, final stat.  p is [path, latest, exts, retention_days,
\* extra]; env is [now, sync_on, fail, order, bad].  Returns [w, raised].
FinalizeBackup_latest_before_mirror(w, p, env) ==
    IF env.fail = "chmod" THEN [w |-> w, raised |-> TRUE]
    ELSE LET m == CreateBackupMetadata(w.local, p.path, env.now, p.extra, env.fail)
             w1 == [w EXCEPT !.local = m.fs]
         IN  IF m.raised THEN [w |-> w1, raised |-> TRUE]
             ELSE LET l == UpdateLatest(w1.local, p.latest, p.path, env.now, env.fail)
                      w2 == [w1 EXCEPT !.local = l.fs]
                  IN  IF l.raised THEN [w |-> w2, raised |-> TRUE]
                      ELSE LET s == SyncToSecondary(w2, p.path, env.sync_on, env.fail)
                           IN  IF s.raised THEN s
                               ELSE LET c == RunRetentionCleanup(s.w, p.path.dir, p.exts,
                                                p.retention_days, env.now, env.sync_on,
                                                env.order, env.bad)
                                    IN  IF c.raised THEN c
                                        ELSE [w |-> c.w,
                                              raised |-> p.path \notin DOMAIN c.w.local]

FinalizeBackup(w, p, env) ==
    IF env.fail = "chmod" THEN [w |-> w, raised |-> TRUE]
    ELSE LET m == CreateBackupMetadata(w.local, p.path, env.now, p.extra, env.fail)
             w1 == [w EXCEPT !.local = m.fs]
         IN  IF m.raised THEN [w |-> w1, raised |-> TRUE]
             ELSE LET s == SyncToSecondary(w1, p.path, env.sync_on, env.fail)
                  IN  IF s.raised THEN s
                      ELSE LET l == UpdateLatest(s.w.local, p.latest, p.path, env.now, env.fail)
                               w3 == [s.w EXCEPT !.local = l.fs]
                           IN  IF l.raised THEN [w |-> w3, raised |-> TRUE]
                               ELSE LET c == RunRetentionCleanup(w3, p.path.dir, p.exts,
                                                p.retention_days, env.now, env.sync_on,
                                                env.order, env.bad)
                                    IN  IF c.raised THEN c
                                        ELSE [w |-> c.w,
                                              raised |-> p.path \notin DOMAIN c.w.local]

(***************************************************************************)
(* core/backup_engine.py: project archives                                 *)
(*                                                                         *)
(* A source file is named by its path components below the parent of the   *)
(* project directory, <<"app", "a.py">>; the archive members and the       *)
(* SnapshotIndex use the same names.  A source tree is a function from the *)
(* names of its regular files to their [mtime, size].                      *)
(***************************************************************************)
SrcPaths ==
    {<<"app", "a.py">>, <<"app", "b.py">>, <<"app", "c.py">>, <<"app", ".env">>,
     <<"app", "debug.log">>}

\* a source entry that is a symlink, and the archive member tar.add makes of
\* it (tarinfo.issym(), size 0)
SymlinkTo(target, mtime) == [mtime |-> mtime, size |-> 0, link |-> "sym", target |-> target]

\* tarinfo.issym() or tarinfo.islnk(); a regular file has no link field
IsLink(v) == "link" \in DOMAIN v

\* lines 523-525 with exclude_patterns = ["*.log"]: regex.match(name) of a
\* compiled pattern.  The default patterns "_*/" and ".*/" translate to
\* regexes that end in "/" + end of string and match no member name.
RegexExcluded(path) == path[Len(path)] \in {"debug.log"}

\* the files filter_func lets into a full archive
Eligible(src) ==
    \* lines 517-520: a component below the project root is hidden
    LET HasHiddenPart(path) ==
            \* part.startswith("_") or part.startswith(".")
            LET StartsHidden(part) == part \in {".env"}
            IN  \E i \in 2..Len(path) : StartsHidden(path[i])
    IN  {f \in DOMAIN src : ~HasHiddenPart(f) /\ ~RegexExcluded(f)}

RECURSIVE SumSizes(_, _)
SumSizes(src, S) ==
    IF S = {} THEN 0
    ELSE LET f == CHOOSE g \in S : TRUE IN src[f].size + SumSizes(src, S \ {f})

\* _estimate_project_size
EstimateProjectSize(src) == SumSizes(src, Eligible(src))

\* int(estimated_size * ESTIMATED_COMPRESSION_RATIO), the ratio being 0.7
EstimatedCompressedSize(estimated_size) == (estimated_size * 7) \div 10

\* _check_disk_space(path, required_bytes, safety_margin = 1.2): os.statvfs
\* raises for a path that does not exist and the check is then skipped
CheckDiskSpace(path_exists, free, required_bytes) ==
    IF ~path_exists THEN TRUE
    ELSE ~(free * 10 < required_bytes * 12)

\* the SnapshotIndex file .<item>_snapshot.json: state is "missing", "ok" or
\* "corrupt"; idx is its content
NoSnapshot == [state |-> "missing", idx |-> <<>>]

\* the except clause of the backup operations: unlink the artifact
CleanupPartial(w, path) ==
    IF path \in DOMAIN w.local THEN [w EXCEPT !.local = Remove(@, path)] ELSE w

\* lines 456-483: the name of the archive backup_project writes at time now
ProjectBackupPath(fs, incremental, now) ==
    LET fulls == {p \in GlobArtifacts(fs, "projects", {"tar.gz"}) : p.tag = "full"}
    IN  [dir |-> "projects", ts |-> now,
         tag |-> IF incremental /\ fulls # {} THEN "incr" ELSE "full", ext |-> "tar.gz"]

\* backup_project(incremental) from the disk space check on.  st is
\* [w, snap, src, free]; env is [now, sync_on, fail, order, bad].
\* Returns [w, snap, ok, started, path, backup_type].
BackupProjectRun(st, incremental, env) ==
    \* lines 572-595: the snapshot of a full backup, from a walk of the source
    \* that skips the regex matches.  file_path.stat() follows a symlink, and a
    \* symlink whose target is gone raises OSError and is left out.
    LET FullSnapshot(src) ==
            [f \in {g \in DOMAIN src : ~RegexExcluded(g)
                                        /\ (IsLink(src[g]) => src[g].target \in DOMAIN src)} |->
                IF IsLink(src[f])
                THEN [mtime |-> src[src[f].target].mtime, size |-> src[src[f].target].size]
                ELSE src[f]]
    \* the newest of a set of files by st_mtime
        Newest(fs, S) == CHOOSE p \in S : \A q \in S : fs[q].mtime <= fs[p].mtime
    \* lines 536-549: an unchanged file of an incremental backup
        Unchanged(file_snapshot, f, v) ==
            /\ f \in DOMAIN file_snapshot
            /\ v.mtime <= file_snapshot[f].mtime
            /\ v.size = file_snapshot[f].size
        w    == st.w
        src  == st.src
        required == EstimatedCompressedSize(EstimateProjectSize(src))
        space_ok == CheckDiskSpace(<<"local", "projects">> \in w.dirs, st.free, required)
        fulls == {p \in GlobArtifacts(w.local, "projects", {"tar.gz"}) : p.tag = "full"}
        inc1 == incremental /\ fulls # {}
        last_full == IF inc1 THEN Newest(w.local, fulls) ELSE NoPath
        path == ProjectBackupPath(w.local, incremental, env.now)
        inc2 == inc1 /\ st.snap.state # "corrupt"
        backup_type == IF inc2 THEN "incremental" ELSE "full"
        file_snapshot == IF inc2 /\ st.snap.state = "ok" THEN st.snap.idx ELSE <<>>
        added == IF inc2
                 THEN {f \in Eligible(src) : ~Unchanged(file_snapshot, f, src[f])}
                 ELSE Eligible(src)
        members == [f \in added |-> src[f]]
        new_snapshot == IF backup_type = "full" THEN FullSnapshot(src)
                        ELSE [f \in {g \in Eligible(src) : ~IsLink(src[g])} |-> src[f]]
        snap1 == IF backup_type = "full" \/ DOMAIN new_snapshot # {}
                 THEN IF env.fail = "snapshot" THEN [state |-> "corrupt", idx |-> <<>>]
                      ELSE [state |-> "ok", idx |-> new_snapshot]
                 ELSE st.snap
        w0 == [w EXCEPT !.dirs = @ \cup {<<"local", "projects">>}]
        w1 == [w0 EXCEPT !.local = Put(@, path, DataFile([members |-> members, taint |-> 0], env.now))]
        fin == FinalizeBackup(w1,
                   [path |-> path,
                    latest |-> [dir |-> "projects", ts |-> 0, tag |-> "latest", ext |-> "tar.gz"],
                    exts |-> {"tar.gz", "sql.gz"},
                    retention_days |-> DEFAULT_PROJECT_RETENTION_DAYS,
                    extra |-> [backup_type |-> backup_type,
                               base_backup |-> IF inc2 THEN last_full ELSE NoPath]],
                   env)
    IN  IF ~space_ok
        THEN [w |-> w, snap |-> st.snap, ok |-> FALSE, started |-> FALSE,
              path |-> NoPath, backup_type |-> ""]
        ELSE IF env.fail = "archive"
        THEN [w |-> w0, snap |-> st.snap, ok |-> FALSE, started |-> TRUE,
              path |-> path, backup_type |-> backup_type]
        ELSE [w |-> IF fin.raised THEN CleanupPartial(fin.w, path) ELSE fin.w,
              snap |-> snap1, ok |-> ~fin.raised, started |-> TRUE,
              path |-> path, backup_type |-> backup_type]

\* _estimate_project_size_complete
EstimateProjectSizeComplete(src) == SumSizes(src, DOMAIN src)

\* backup_project_complete lines 674-676: the fixed file name
CompletePath == [dir |-> "projects", ts |-> 0, tag |-> "complete", ext |-> "tar.gz"]

\* backup_project_complete from the size estimate on.  tarfile.open(.., "w:gz")
\* truncates the previous complete archive, and the except clause unlinks
\* the file.
BackupProjectCompleteRun(st, env) ==
    \* the archive of a complete backup: filter_func drops only the files whose
    \* basename matches an archive pattern, and the source tree has none
    LET CompleteMembers(src) == [f \in DOMAIN src |-> src[f]]
        w0 == [st.w EXCEPT !.dirs = @ \cup {<<"local", "projects">>}]
        required == EstimatedCompressedSize(EstimateProjectSizeComplete(st.src))
        space_ok == CheckDiskSpace(<<"local", "projects">> \in w0.dirs, st.free, required)
        w1 == [w0 EXCEPT !.local = Put(@, CompletePath,
                    DataFile([members |-> CompleteMembers(st.src), taint |-> 0], env.now))]
        fin == FinalizeBackup(w1,
                   [path |-> CompletePath,
                    latest |-> [dir |-> "projects", ts |-> 0, tag |-> "latest_complete", ext |-> "tar.gz"],
                    exts |-> {"tar.gz", "sql.gz"},
                    retention_days |-> DEFAULT_PROJECT_RETENTION_DAYS,
                    extra |-> [backup_type |-> "complete", base_backup |-> NoPath]],
                   env)
    IN  IF ~space_ok
        THEN [w |-> w0, snap |-> st.snap, ok |-> FALSE, started |-> FALSE,
              path |-> NoPath, backup_type |-> ""]
        ELSE IF env.fail = "archive"
        THEN [w |-> CleanupPartial(w0, CompletePath), snap |-> st.snap, ok |-> FALSE,
              started |-> TRUE, path |-> CompletePath, backup_type |-> "complete"]
        ELSE [w |-> IF fin.raised THEN CleanupPartial(fin.w, CompletePath) ELSE fin.w,
              snap |-> st.snap, ok |-> ~fin.raised, started |-> TRUE,
              path |-> CompletePath, backup_type |-> "complete"]

\* MIN_DB_BACKUP_SPACE_MB (sizes are counted in MB)
MIN_DB_BACKUP_SPACE_MB == 1024

\* the bytes mysqldump writes
DumpBytes == [members |-> (<<"dump.sql">> :> [mtime |-> 0, size |-> 10]), taint |-> 0]

\* lines 1063-1116: the name of the dump
DatabaseBackupPath(compress, now) ==
    [dir |-> "databases", ts |-> now, tag |-> "",
     ext |-> IF compress THEN "sql.gz" ELSE "sql"]

\* backup_database with backup.compress = compress, from the mkdir on
BackupDatabaseRun(st, compress, env) ==
    \* lines 1140-1147: unlink local_backup_path and local_backup_path + ".gz"
    LET CleanupPartialDb(w, path) ==
            LET gz == IF path.ext = "sql" THEN [path EXCEPT !.ext = "sql.gz"] ELSE NoPath
            IN  CleanupPartial(CleanupPartial(w, path), gz)
    \* _check_disk_space(path, required_bytes, safety_margin = 1.1)
        CheckDiskSpaceDb(path_exists, free, required_bytes) ==
            IF ~path_exists THEN TRUE
            ELSE ~(free * 10 < required_bytes * 11)
        w0 == [st.w EXCEPT !.dirs = @ \cup {<<"local", "databases">>}]
        space_ok == CheckDiskSpaceDb(<<"local", "databases">> \in w0.dirs, st.free,
                                     MIN_DB_BACKUP_SPACE_MB)
        path == DatabaseBackupPath(compress, env.now)
        w1 == [w0 EXCEPT !.local = Put(@, path, DataFile(DumpBytes, env.now))]
        fin == FinalizeBackup(w1,
                   [path |-> path,
                    latest |-> [dir |-> "databases", ts |-> 0, tag |-> "latest", ext |-> path.ext],
                    exts |-> {"tar.gz", "sql.gz"},
                    retention_days |-> DEFAULT_DATABASE_RETENTION_DAYS,
                    extra |-> [backup_type |-> "", base_backup |-> NoPath]],
                   env)
    IN  IF ~space_ok
        THEN [w |-> w0, snap |-> st.snap, ok |-> FALSE, started |-> FALSE,
              path |-> NoPath, backup_type |-> ""]
        ELSE IF env.fail = "archive"
        THEN [w |-> w0, snap |-> st.snap, ok |-> FALSE, started |-> TRUE,
              path |-> [path EXCEPT !.ext = "sql"], backup_type |-> "database"]
        ELSE [w |-> IF fin.raised THEN CleanupPartialDb(fin.w, path) ELSE fin.w,
              snap |-> st.snap, ok |-> ~fin.raised, started |-> TRUE,
              path |-> path, backup_type |-> "database"]

\* line 1202: the name of the bundle
GitBackupPath(now) == [dir |-> "git", ts |-> now, tag |-> "", ext |-> "bundle"]

\* backup_git from the mkdir on
BackupGitRun(st, env) ==
    \* the bytes git bundle create writes
    LET BundleBytes == [members |-> (<<"refs">> :> [mtime |-> 0, size |-> 10]), taint |-> 0]
        w0 == [st.w EXCEPT !.dirs = @ \cup {<<"local", "git">>}]
        path == GitBackupPath(env.now)
        w1 == [w0 EXCEPT !.local = Put(@, path, DataFile(BundleBytes, env.now))]
        fin == FinalizeBackup(w1,
                   [path |-> path,
                    latest |-> [dir |-> "git", ts |-> 0, tag |-> "latest", ext |-> "bundle"],
                    exts |-> {"bundle"},
                    retention_days |-> DEFAULT_PROJECT_RETENTION_DAYS,
                    extra |-> [backup_type |-> "git_bundle", base_backup |-> NoPath]],
                   env)
    IN  IF env.fail = "archive"
        THEN [w |-> w0, snap |-> st.snap, ok |-> FALSE, started |-> TRUE,
              path |-> path, backup_type |-> "git_bundle"]
        ELSE [w |-> IF fin.raised THEN CleanupPartial(fin.w, path) ELSE fin.w,
              snap |-> st.snap, ok |-> ~fin.raised, started |-> TRUE,
              path |-> path, backup_type |-> "git_bundle"]

\* verify_backup(item_type, item_name, backup_file) -> [ok, reason]
VerifyBackup(fs, path) ==
    LET mp == BackupNameToMetaName(path)
    IN  IF path \notin DOMAIN fs THEN [ok |-> FALSE, reason |-> "not_found"]
        ELSE IF mp \notin DOMAIN fs THEN [ok |-> FALSE, reason |-> "no_metadata"]
        ELSE IF fs[mp].kind # "json" \/ fs[mp].meta.state # "ok"
        THEN [ok |-> FALSE, reason |-> "error"]
        ELSE IF fs[mp].meta.checksum = NoChecksum
        THEN [ok |-> FALSE, reason |-> "no_checksum"]
        ELSE IF Checksum(fs[path].bytes) = fs[mp].meta.checksum
        THEN [ok |-> TRUE, reason |-> "verified"]
        ELSE [ok |-> FALSE, reason |-> "mismatch"]

(***************************************************************************)
(* Tags and tiered retention on the directories of the engine              *)
(***************************************************************************)

\* __init__: config.get_setting("retention_tiers", None) or DEFAULT_TIERS;
\* an absent setting is <<>>
default_tiers(setting) ==
    \* RetentionManager.DEFAULT_TIERS
    LET DEFAULT_TIERS ==
            [t \in TierNames |->
                CASE t = "hourly"  -> [keep |-> 24, max_age |-> 24]
                  [] t = "daily"   -> [keep |-> 7, max_age |-> 7]
                  [] t = "weekly"  -> [keep |-> 4, max_age |-> 4]
                  [] t = "monthly" -> [keep |-> 12, max_age |-> 12]
                  [] t = "yearly"  -> [keep |-> 5, max_age |-> 5]]
    IN  IF setting = <<>> THEN DEFAULT_TIERS ELSE setting

\* retention_manager.py lines 91-93 and 150: the sidecar of an artifact
RetentionMetaName(p) ==
    IF p.ext \in {"tar.gz", "sql.gz"} THEN [p EXCEPT !.ext = "json"] ELSE p

\* backup_dir.glob(pattern) as the listing the plan starts from; the plan
\* sorts by timestamp, and the timestamps of a directory differ
DirListing(fs, dir, ext) ==
    \* what _get_backups_with_metadata reads from the sidecar mp
    LET SideOf(files, mp) ==
            IF mp \notin DOMAIN files THEN NoSidecar
            ELSE IF files[mp].kind # "json" \/ files[mp].meta.state # "ok"
            THEN [NoSidecar EXCEPT !.state = "corrupt"]
            ELSE [state |-> "ok", has_ts |-> TRUE, ts |-> files[mp].meta.timestamp,
                  tags |-> files[mp].meta.tags, keep_forever |-> files[mp].meta.keep_forever,
                  pinned |-> files[mp].meta.pinned, importance |-> files[mp].meta.importance]
        order == SomeOrder(GlobArtifacts(fs, dir, {ext}))
    IN  [i \in 1..Len(order) |->
            [name |-> order[i], mtime |-> fs[order[i]].mtime,
             side |-> SideOf(fs, RetentionMetaName(order[i]))]]

\* a deletion loop that does not look at dry_run
RECURSIVE ExecuteRetention_ignoring_dry_run(_, _, _, _, _, _)
ExecuteRetention_ignoring_dry_run(fs, delete_list, i, dry_run, bad, deleted) ==
    IF i > Len(delete_list) THEN [fs |-> fs, deleted |-> deleted]
    ELSE LET p  == delete_list[i].name
             mp == RetentionMetaName(p)
         IN  IF p \notin DOMAIN fs \/ p = bad
             THEN ExecuteRetention_ignoring_dry_run(fs, delete_list, i + 1, dry_run, bad, deleted)
             ELSE IF mp \in DOMAIN fs /\ mp = bad
             THEN ExecuteRetention_ignoring_dry_run(Remove(fs, p), delete_list, i + 1, dry_run, bad, deleted)
             ELSE ExecuteRetention_ignoring_dry_run(Remove(Remove(fs, p), mp), delete_list, i + 1,
                                   dry_run, bad, deleted \cup {p})

\* lines 82-102: the deletion loop over delete_list from position i; the
\* unlink of the file named `bad` raises, which the loop logs and survives.
\* Returns [fs, deleted].
RECURSIVE ExecuteRetention(_, _, _, _, _, _)
ExecuteRetention(fs, delete_list, i, dry_run, bad, deleted) ==
    IF dry_run \/ i > Len(delete_list) THEN [fs |-> fs, deleted |-> deleted]
    ELSE LET p  == delete_list[i].name
             mp == RetentionMetaName(p)
         IN  IF p \notin DOMAIN fs \/ p = bad
             THEN ExecuteRetention(fs, delete_list, i + 1, dry_run, bad, deleted)
             ELSE IF mp \in DOMAIN fs /\ mp = bad
             THEN ExecuteRetention(Remove(fs, p), delete_list, i + 1, dry_run, bad, deleted)
             ELSE ExecuteRetention(Remove(Remove(fs, p), mp), delete_list, i + 1,
                                   dry_run, bad, deleted \cup {p})

\* the directory and the pattern of an item type (lines 60-65)
RetentionDir(item_type) == IF item_type = "project" THEN "projects" ELSE "databases"

RetentionExt(item_type) == IF item_type = "project" THEN "tar.gz" ELSE "sql.gz"

\* apply_tiered_retention(item_type, item_name, custom_tiers,
\* preserve_tagged, dry_run) on the local root fs at time now, with
\* self.default_tiers = defaults.  Returns [fs, report].
ApplyTieredRetentionRun(fs, dir_exists, item_type, custom_tiers, defaults, preserve_tagged, dry_run, now, bad) ==
    LET tiers == IF custom_tiers = <<>> THEN defaults ELSE custom_tiers
        listing == DirListing(fs, RetentionDir(item_type), RetentionExt(item_type))
        plan == RetentionPlan(listing, tiers, preserve_tagged, now)
        x == ExecuteRetention(fs, plan.delete, 1, dry_run, bad, {})
    IN  IF ~dir_exists
        THEN [fs |-> fs, report |-> [error |-> TRUE]]
        ELSE [fs |-> x.fs,
              report |-> [error |-> FALSE,
                          total_backups |-> Len(listing),
                          backups_to_keep |-> Len(plan.keep),
                          backups_to_delete |-> Len(plan.delete),
                          dry_run |-> dry_run,
                          deleted |-> x.deleted]]

\* optimize_all_retention(dry_run): every project directory, then every
\* database directory.  Returns [fs, results].
OptimizeAllRetentionRun(fs, dirs_now, defaults, dry_run, now, bad) ==
    LET none == [fs |-> fs, report |-> [error |-> FALSE, total_backups |-> 0,
                    backups_to_keep |-> 0, backups_to_delete |-> 0,
                    dry_run |-> dry_run, deleted |-> {}]]
        p == IF <<"local", "projects">> \in dirs_now
             THEN ApplyTieredRetentionRun(fs, TRUE, "project", <<>>, defaults, TRUE,
                                          dry_run, now, bad)
             ELSE none
        d == IF <<"local", "databases">> \in dirs_now
             THEN ApplyTieredRetentionRun(p.fs, TRUE, "database", <<>>, defaults, TRUE,
                                          dry_run, now, bad)
             ELSE [none EXCEPT !.fs = p.fs]
    IN  [fs |-> d.fs,
         results |-> [projects |-> p.report, databases |-> d.report,
                      total_deleted |-> Cardinality(p.report.deleted)
                                        + Cardinality(d.report.deleted),
                      dry_run |-> dry_run]]

\* tag_backup(item_type, item_name, backup_file, tags, importance,
\* keep_forever); an argument that is None is "unset" ({} for tags), and
\* keep_forever is "true" or "false".
\* Returns [fs, ok].
TagBackupRun(fs, path, tags, importance, keep_forever, now) ==
    LET mp == BackupNameToMetaName(path)
        md0 == IF mp \in DOMAIN fs THEN fs[mp].meta
               ELSE [NoMeta EXCEPT !.state = "ok", !.timestamp = fs[path].mtime]
        md1 == [md0 EXCEPT !.tags = @ \cup tags]
        md2 == IF importance = "unset" THEN md1 ELSE [md1 EXCEPT !.importance = importance]
        md3 == IF keep_forever = "unset" THEN md2
               ELSE [md2 EXCEPT !.keep_forever = (keep_forever = "true"),
                                !.pinned = (keep_forever = "true")]
    IN  IF path \notin DOMAIN fs THEN [fs |-> fs, ok |-> FALSE]
        ELSE IF mp \in DOMAIN fs /\ (fs[mp].kind # "json" \/ fs[mp].meta.state # "ok")
        THEN [fs |-> fs, ok |-> FALSE]
        ELSE IF importance \notin {"unset", "critical", "high", "normal", "low"}
        THEN [fs |-> fs, ok |-> FALSE]
        ELSE [fs |-> Put(fs, mp, JsonFile(md3, now)), ok |-> TRUE]

\* the timestamped archives of the project in creation order
RECURSIVE InCreationOrder(_)
InCreationOrder(S) ==
    IF S = {} THEN <<>>
    ELSE LET p == CHOOSE q \in S : \A r \in S : q.ts <= r.ts
         IN  <<p>> \o InCreationOrder(S \ {p})

\* tar.extractall of the archives of `order` from position i on, one over
\* the other, into a tree that holds acc
RECURSIVE ExtractInOrder(_, _, _, _)
ExtractInOrder(fs, order, i, acc) ==
    IF i > Len(order) THEN acc
    ELSE ExtractInOrder(fs, order, i + 1, fs[order[i]].bytes.members @@ acc)

(***************************************************************************)
(* core/backup_engine.py: restores                                          *)
(*                                                                         *)
(* The destination is the parent directory of the restore targets: a       *)
(* function from the directories in it, [name, aside], to their trees; a   *)
(* tree maps the paths of its files to their versions.  aside is 0, or the *)
(* timestamp of the name <name>_backup_<timestamp>.  The database is the   *)
(* directory "mysql" of this model.                                        *)
(***************************************************************************)
DirKey(name, aside) == [name |-> name, aside |-> aside]

\* arcname = project_name: the root of every project archive
ProjectRoot == "app"

\* shutil.move(restore_path, <restore_path>_backup_<timestamp>) when
\* restore_path exists
MoveAside(dst, target, now) ==
    IF DirKey(target, 0) \notin DOMAIN dst THEN dst
    ELSE [k \in ((DOMAIN dst) \ {DirKey(target, 0)}) \cup {DirKey(target, now)} |->
            IF k = DirKey(target, now) THEN dst[DirKey(target, 0)] ELSE dst[k]]

\* _safe_extractall(tar, restore_path.parent): the archive holds its root
\* directory and its members, and extraction writes over what is there
ExtractAllInto(dst, members) ==
    \* the files tar.extractall(parent) writes below the directory `name`
    LET ExtractedBelow(entries, name) ==
            LET ms == {m \in DOMAIN entries : m[1] = name}
            IN  [f \in {Tail(m) : m \in ms} |-> entries[<<name>> \o f]]
        root == DirKey(ProjectRoot, 0)
    IN  [k \in (DOMAIN dst) \cup {root} |->
            IF k = root
            THEN ExtractedBelow(members, ProjectRoot)
                 @@ (IF root \in DOMAIN dst THEN dst[root] ELSE <<>>)
            ELSE dst[k]]

\* _safe_extractall lines 298-304: the member m is rejected.  Its name is
\* absolute, has a '..' component, or resolves outside the directory of the
\* extraction because its first component is a symlink there that leads out
\* (OutsideLinks: the symlinks of that kind in the directory).
UnsafeMember_ignoring_dotdot(m) ==
    LET OutsideLinks == {"out"}
    IN  m[1] = "/" \/ m[1] \in OutsideLinks

UnsafeMember(m) ==
    LET OutsideLinks == {"out"}
    IN  \/ m[1] = "/"
        \/ \E i \in 1..Len(m) : m[i] = ".."
        \/ m[1] \in OutsideLinks

\* restore_project(project_name, backup_file, target_path) with
\* restore_path.name = target.  Returns [dst, ok].  _safe_extractall checks
\* every member before tar.extractall writes the first one.
RestoreProjectRun(fs, dst, path, target, now) ==
    IF path \notin DOMAIN fs THEN [dst |-> dst, ok |-> FALSE]
    ELSE IF ~VerifyBackup(fs, path).ok THEN [dst |-> dst, ok |-> FALSE]
    ELSE IF \E m \in DOMAIN fs[path].bytes.members : UnsafeMember(m)
    THEN [dst |-> MoveAside(dst, target, now), ok |-> FALSE]
    ELSE [dst |-> ExtractAllInto(MoveAside(dst, target, now), fs[path].bytes.members),
          ok |-> TRUE]

\* restore_database(db_name, backup_file): verify, then mysql < dump
RestoreDatabaseRun(fs, dst, path) ==
    IF path \notin DOMAIN fs THEN [dst |-> dst, ok |-> FALSE]
    ELSE IF ~VerifyBackup(fs, path).ok THEN [dst |-> dst, ok |-> FALSE]
    ELSE [dst |-> Put(dst, DirKey("mysql", 0), fs[path].bytes.members), ok |-> TRUE]

\* restore_git(project_name, backup_file, target_path, mode); git rejects
\* altered bytes when `detects`.  Returns [dst, ok].
RestoreGitRun(fs, dst, path, target, mode, detects, now) ==
    \* is_git_repo(restore_path)
    LET IsGitRepo(tree, at) ==
            DirKey(at, 0) \in DOMAIN tree /\ <<"refs">> \in DOMAIN tree[DirKey(at, 0)]
        broken == fs[path].bytes.taint # 0 /\ detects
        t == DirKey(target, 0)
    IN  IF path \notin DOMAIN fs THEN [dst |-> dst, ok |-> FALSE]
        ELSE IF mode = "clone"
        THEN IF broken THEN [dst |-> MoveAside(dst, target, now), ok |-> FALSE]
             ELSE [dst |-> Put(MoveAside(dst, target, now), t, fs[path].bytes.members),
                   ok |-> TRUE]
        ELSE IF mode = "fetch"
        THEN IF ~IsGitRepo(dst, target) \/ broken THEN [dst |-> dst, ok |-> FALSE]
             ELSE [dst |-> [dst EXCEPT ![t] = fs[path].bytes.members @@ @], ok |-> TRUE]
        ELSE [dst |-> dst, ok |-> FALSE]

\* fnmatch.fnmatch(member.name, file_pattern) for the patterns "*" and
\* "*.py" (the star matches across "/") and for a pattern without wildcard
Matches(m, pattern) ==
    \* the names that end in .py
    LET PyNames == {"a.py", "b.py", "c.py"}
    IN  \/ pattern = "*"
        \/ pattern = "*.py" /\ m[Len(m)] \in PyNames
        \/ pattern = m

\* selective_restore lines 2262-2280: the archives to look into, the
\* incremental one before its base
BackupsToCheck(fs, path) ==
    LET mp == [path EXCEPT !.ext = "json"]
    IN  IF path.tag = "incr" /\ mp \in DOMAIN fs
           /\ fs[mp].meta.base_backup # NoPath /\ fs[mp].meta.base_backup \in DOMAIN fs
        THEN <<path, fs[mp].meta.base_backup>>
        ELSE <<path>>

\* lines 2287-2317: the loop over tar.getmembers() for one pattern, from
\* position i of the member list `order` of the archive `archive`.  st is
\* [names, tree, found, restored]: names is the member.name each TarInfo of
\* the open archive has now, tree the directory written to, found is
\* files_found, restored the extractions so far.
RECURSIVE SelectiveMembers(_, _, _, _, _, _, _)
SelectiveMembers(members, archive, order, i, pattern, preserve_structure, st) ==
    \* Path(member.name).name
    LET BaseName(n) == <<n[Len(n)]>>
    IN  IF i > Len(order) THEN st
        ELSE LET m  == order[i]
                 n  == st.names[m]
                 n1 == IF preserve_structure THEN n ELSE BaseName(n)
                 st1 == [st EXCEPT !.found = @ \cup {n}, !.names[m] = n1]
                 st2 == [st1 EXCEPT !.tree = (n1 :> members[m]) @@ @,
                                    !.restored = Append(@, [member |-> m, name |-> n1,
                                                            from |-> archive])]
             IN  IF ~Matches(n, pattern) \/ n \in st.found
                 THEN SelectiveMembers(members, archive, order, i + 1, pattern,
                                       preserve_structure, st)
                 ELSE IF IsLink(members[m])
                 THEN SelectiveMembers(members, archive, order, i + 1, pattern,
                                       preserve_structure, st1)
                 ELSE SelectiveMembers(members, archive, order, i + 1, pattern,
                                       preserve_structure, st2)

\* line 2285: the loop over files_to_restore from position k
RECURSIVE SelectivePatterns(_, _, _, _, _, _, _)
SelectivePatterns(members, archive, order, patterns, k, preserve_structure, st) ==
    IF k > Len(patterns) THEN st
    ELSE SelectivePatterns(members, archive, order, patterns, k + 1, preserve_structure,
             SelectiveMembers(members, archive, order, 1, patterns[k],
                              preserve_structure, st))

\* the loop of selective_restore over backups_to_check from position i; an
\* altered archive that is not `readable` raises.  st is [tree, found,
\* restored].  Returns [tree, found, restored, raised].
RECURSIVE SelectiveFrom(_, _, _, _, _, _, _)
SelectiveFrom(fs, chain, i, patterns, preserve_structure, readable, st) ==
    IF i > Len(chain)
    THEN [tree |-> st.tree, found |-> st.found, restored |-> st.restored, raised |-> FALSE]
    ELSE LET members == fs[chain[i]].bytes.members
             opened == [names |-> [m \in DOMAIN members |-> m], tree |-> st.tree,
                        found |-> st.found, restored |-> st.restored]
             r == SelectivePatterns(members, chain[i], SomeOrder(DOMAIN members),
                                    patterns, 1, preserve_structure, opened)
         IN  IF fs[chain[i]].bytes.taint # 0 /\ ~readable
             THEN [tree |-> st.tree, found |-> st.found, restored |-> st.restored,
                   raised |-> TRUE]
             ELSE SelectiveFrom(fs, chain, i + 1, patterns, preserve_structure, readable,
                                [tree |-> r.tree, found |-> r.found,
                                 restored |-> r.restored])

\* selective_restore("project", item, backup_file, patterns, target_path,
\* preserve_structure) with restore_dir.name = target.
\* Returns [dst, ok, restored].
SelectiveRestoreRun(fs, dst, path, patterns, target, preserve_structure, readable) ==
    LET t == DirKey(target, 0)
        mp == [path EXCEPT !.ext = "json"]
        sidecar_broken == path.tag = "incr" /\ mp \in DOMAIN fs
                          /\ (fs[mp].kind # "json" \/ fs[mp].meta.state # "ok")
        r == SelectiveFrom(fs, BackupsToCheck(fs, path), 1, patterns, preserve_structure,
                           readable,
                           [tree |-> IF t \in DOMAIN dst THEN dst[t] ELSE <<>>,
                            found |-> {}, restored |-> <<>>])
    IN  IF path \notin DOMAIN fs \/ sidecar_broken
        THEN [dst |-> dst, ok |-> FALSE, restored |-> <<>>]
        ELSE IF r.restored = <<>>
        THEN [dst |-> dst, ok |-> FALSE, restored |-> <<>>]
        ELSE [dst |-> Put(dst, t, r.tree), ok |-> ~r.raised, restored |-> r.restored]

(***************************************************************************)
(* State                                                                   *)
(***************************************************************************)
VARIABLES
    rListing,    \* retention planner: the directory listing handed to the plan
    rTiers,      \* retention planner: the tier configuration
    rPreserve,   \* retention planner: preserve_tagged
    rPlan,       \* retention planner: [keep, delete] computed by the plan
    rPc,         \* retention planner: "input" before the plan ran, "done" after
    now,         \* engine: datetime.now(), in ticks
    free,        \* engine: free space of the backup volume (f_bavail * f_frsize)
    syncOn,      \* engine: a secondary root other than the local root is configured
    local,       \* engine: the files below the local root
    mirror,      \* engine: the files below the secondary root
    dirs,        \* engine: the item directories that exist, <<root, dir>>
    snap,        \* engine: the SnapshotIndex file of the project
    src,         \* engine: the source tree of the project
    dest,        \* engine: the directory restores write to
    last,        \* engine: the operation that ran last and what it returned
    ops,         \* engine: number of operations so far
    faults,      \* engine: number of operations that ran with an injected failure
    call,        \* engine: the backup_project call that is between two of its steps
    bKind,       \* batch: which backup_all_* runs
    bParallel,   \* batch: the parallel argument
    bItems,      \* batch: the configured items in the order of the configuration
    bPc,         \* batch: "config", "running", "done", or "raised"
    bNext,       \* batch: position of the sequential loop
    bFutures,    \* batch: state of the submitted futures
    bResults,    \* batch: the results dict
    bg           \* background manager: [second, objs, tasks, threads]: int(time.time()),
                 \* the BackupTask objects, self.tasks (task_id -> object) and the
                 \* threads of self.active_threads

retVars == <<rListing, rTiers, rPreserve, rPlan, rPc>>

engVars == <<now, free, syncOn, local, mirror, dirs, snap, src, dest, last, ops, faults, call>>

batchVars == <<bKind, bParallel, bItems, bPc, bNext, bFutures, bResults, bg>>

vars == <<rListing, rTiers, rPreserve, rPlan, rPc,
          now, free, syncOn, local, mirror, dirs, snap, src, dest, last, ops, faults, call,
          bKind, bParallel, bItems, bPc, bNext, bFutures, bResults, bg>>

\* the value the variables of the engine have where the engine does not run
EngIdle ==
    /\ now = 0 /\ free = 0 /\ syncOn = FALSE
    /\ local = <<>> /\ mirror = <<>> /\ dirs = {}
    /\ snap = NoSnapshot /\ src = <<>> /\ dest = <<>>
    /\ last = [op |-> "none"] /\ ops = 0 /\ faults = 0
    /\ call = [pc |-> "idle"]

\* the value the variables of the batch have where no batch runs
BatchIdle ==
    /\ bKind = "none" /\ bParallel = FALSE /\ bItems = <<>> /\ bPc = "idle"
    /\ bNext = 0 /\ bFutures = <<>> /\ bResults = <<>>
    /\ bg = [second |-> 1, objs |-> <<>>, tasks |-> <<>>, threads |-> <<>>]

\* the value the variables of the planner have where the planner does not run
RetIdle ==
    /\ rListing = <<>> /\ rTiers = <<>> /\ rPreserve = TRUE
    /\ rPlan = [keep |-> <<>>, delete |-> <<>>] /\ rPc = "idle"

(***************************************************************************)
(* Retention planner: inputs                                               *)
(***************************************************************************)
\* longest backup history handed to the planner
MaxHist == 4

\* datetime.now() of the planner runs: 2026-01-02 10:30
RetNow == (732 * TicksPerDay) + 21

\* tier configurations passed as custom_tiers
RetTierConfigs ==
    {[t \in {"hourly", "daily"} |->
        IF t = "hourly" THEN [keep |-> 1, max_age |-> 2] ELSE [keep |-> 1, max_age |-> 3]],
     [t \in TierNames |-> [keep |-> 1, max_age |-> 1]],
     [t \in {"daily"} |-> [keep |-> 0, max_age |-> 7]]}

RetInit ==
    /\ rListing = <<>>
    /\ rTiers = <<>>
    /\ rPreserve = TRUE
    /\ rPlan = [keep |-> <<>>, delete |-> <<>>]
    /\ rPc = "input"
    /\ EngIdle
    /\ BatchIdle

\* one more artifact in the item directory, named by its position.  glob
\* order is arbitrary and the plan starts by sorting, so the listings are
\* enumerated oldest-first, with every order among equal timestamps
AddHistory(ts, side) ==
    /\ rPc = "input"
    /\ Len(rListing) < MaxHist
    /\ Len(rListing) > 0 => rListing[Len(rListing)].mtime <= ts
    /\ rListing' = Append(rListing, [name |-> Len(rListing) + 1, mtime |-> ts, side |-> side])
    /\ UNCHANGED <<rTiers, rPreserve, rPlan, rPc>>
    /\ UNCHANGED engVars
    /\ UNCHANGED batchVars

\* apply_tiered_retention(custom_tiers, preserve_tagged) up to the plan
RunPlan(tiers, preserve_tagged) ==
    /\ rPc = "input"
    /\ rTiers' = tiers
    /\ rPreserve' = preserve_tagged
    /\ rPlan' = RetentionPlan(rListing, tiers, preserve_tagged, RetNow)
    /\ rPc' = "done"
    /\ UNCHANGED rListing
    /\ UNCHANGED engVars
    /\ UNCHANGED batchVars

RetNext ==
    \* sidecars of the histories: untouched, tagged, keep_forever and pinned
    \* (what tag_backup writes), and no sidecar at all
    LET RetSidecars(ts) ==
            LET plain == [state |-> "ok", has_ts |-> TRUE, ts |-> ts, tags |-> {},
                          keep_forever |-> FALSE, pinned |-> FALSE, importance |-> "normal"]
            IN  {plain,
                 [plain EXCEPT !.tags = {"wip"}],
                 [plain EXCEPT !.keep_forever = TRUE, !.pinned = TRUE],
                 NoSidecar}
    \* timestamps of the histories: 10:00 the same day, 07:30 the same day,
    \* 2025-12-31 (same ISO week, other month and year), 2024-11-28
        RetTimes ==
            {RetNow - 1, RetNow - 6, RetNow - (2 * TicksPerDay), RetNow - (400 * TicksPerDay)}
    IN  \/ \E ts \in RetTimes : \E side \in RetSidecars(ts) : AddHistory(ts, side)
        \/ \E tiers \in RetTierConfigs, p \in BOOLEAN : RunPlan(tiers, p)

SpecRetention == RetInit /\ [][RetNext]_vars

\* C1: with preserve_tagged, no backup whose sidecar has tags or is
\* keep_forever/pinned is in the delete list of the plan
C1_TaggedNeverDeleted ==
    \* the listing entry of a backup of the plan
    LET EntryOf(b) == rListing[b.name]
    IN  (rPc = "done" /\ rPreserve) =>
            \A i \in 1..Len(rPlan.delete) :
                LET side == EntryOf(rPlan.delete[i]).side
                IN  side.state = "ok" => (side.tags = {} /\ ~side.keep_forever /\ ~side.pinned)

\* C1 witness: a tagged backup is kept although a newer backup already
\* fills its tier, and a tagged uncategorized backup is kept
C1_Witness ==
    /\ rPc = "done" /\ rPreserve
    /\ \E i \in 1..Len(rPlan.keep), j \in 1..Len(rPlan.keep) :
          /\ rPlan.keep[i].tagged /\ rPlan.keep[i].tier # "uncategorized"
          /\ rPlan.keep[j].tier = rPlan.keep[i].tier
          /\ rPlan.keep[j].timestamp > rPlan.keep[i].timestamp
          /\ rTiers[rPlan.keep[i].tier].keep = 1
    /\ \E i \in 1..Len(rPlan.keep) :
          rPlan.keep[i].tagged /\ rPlan.keep[i].tier = "uncategorized"

\* keep_list followed by delete_list
PlanAll == rPlan.keep \o rPlan.delete

\* the age window of tier t holds the timestamp ts (lines 212-235)
InWindow(t, ts) ==
    CASE t = "hourly"  -> (RetNow - ts) <= rTiers[t].max_age * TicksPerHour
      [] t = "daily"   -> AgeDays(RetNow, ts) <= rTiers[t].max_age
      [] t = "weekly"  -> AgeDays(RetNow, ts) <= rTiers[t].max_age * 7
      [] t = "monthly" -> AgeDays(RetNow, ts) <= rTiers[t].max_age * 30
      [] t = "yearly"  -> AgeDays(RetNow, ts) <= rTiers[t].max_age * 365

\* two timestamps fall in the same period of tier t
SamePeriod(t, a, b) ==
    CASE t = "hourly"  -> HourOf(a) = HourOf(b)
      [] t = "daily"   -> DateOf(a) = DateOf(b)
      [] t = "weekly"  -> IsoWeekOf(a) = IsoWeekOf(b)
      [] t = "monthly" -> YearOf(a) = YearOf(b) /\ MonthOf(a) = MonthOf(b)
      [] t = "yearly"  -> YearOf(a) = YearOf(b)

\* C12: every backup of the history is exactly once in keep_list or
\* delete_list; its bucket is the first configured tier in the order hourly,
\* daily, weekly, monthly, yearly that accepts it, and "uncategorized" if and
\* only if every configured tier turned it away
C12_ExactlyOneBucket ==
    \* tier t turned the backup b away: b is outside the age window, or the
    \* tier has a one-per-period rule (lines 214-240) and holds a backup of the
    \* period of b that is at least as new
    LET TurnedAway(t, b) ==
            \/ ~InWindow(t, b.timestamp)
            \/ /\ t # "hourly"
               /\ \E j \in 1..Len(PlanAll) :
                     /\ PlanAll[j].tier = t
                     /\ PlanAll[j].name # b.name
                     /\ PlanAll[j].timestamp >= b.timestamp
                     /\ SamePeriod(t, PlanAll[j].timestamp, b.timestamp)
    \* the configured tiers before position k of tier_order
        TiersBefore(k) == {tier_order[i] : i \in 1..(k - 1)} \cap DOMAIN rTiers
    IN  rPc = "done" =>
            /\ Len(PlanAll) = Len(rListing)
            /\ \A n \in 1..Len(rListing) :
                  Cardinality({j \in 1..Len(PlanAll) : PlanAll[j].name = n}) = 1
            /\ \A j \in 1..Len(PlanAll) :
                  LET b == PlanAll[j]
                  IN  /\ b.tier \in (DOMAIN rTiers) \cup {"uncategorized"}
                      /\ \A k \in 1..Len(tier_order) :
                            b.tier = tier_order[k] =>
                                /\ ~TurnedAway(tier_order[k], b)
                                /\ \A t \in TiersBefore(k) : TurnedAway(t, b)
                      /\ b.tier = "uncategorized" <=>
                            \A t \in DOMAIN rTiers : TurnedAway(t, b)

\* C12 witness: a plan with a backup that the daily tier turned away because
\* its day was taken and that the weekly tier accepted, with a backup to
\* keep and a backup to delete
C12_Witness ==
    /\ rPc = "done"
    /\ {"daily", "weekly"} \subseteq DOMAIN rTiers
    /\ \E j \in 1..Len(PlanAll) :
          /\ PlanAll[j].tier = "weekly"
          /\ InWindow("daily", PlanAll[j].timestamp)
    /\ rPlan.keep # <<>>
    /\ rPlan.delete # <<>>

\* C19: no tier holds two backups of the same period (clock hour, calendar
\* day, ISO week, month, year)
C19_OnePerPeriod ==
    rPc = "done" =>
        \A i, j \in 1..Len(PlanAll) :
            (i # j /\ PlanAll[i].tier = PlanAll[j].tier /\ PlanAll[i].tier \in TierNames)
                => ~SamePeriod(PlanAll[i].tier, PlanAll[i].timestamp, PlanAll[j].timestamp)

\* b is in keep_list
Kept(b) == \E j \in 1..Len(rPlan.keep) : rPlan.keep[j] = b

\* C20: a backup of a tier is kept exactly if it is among the `keep` newest
\* of its tier or, with preserve_tagged, tagged: a kept backup is tagged or
\* has fewer than `keep` newer ones in its tier, a tagged one and one with
\* fewer than `keep` others at least as new are kept, and a tier keeps at
\* most `keep` untagged backups
C20_KeepNewestOfTier ==
    \* the backups of the plan that are in the tier of b and as new as b or newer
    LET NotOlderInTier(b) ==
            {j \in 1..Len(PlanAll) :
                /\ PlanAll[j].tier = b.tier
                /\ PlanAll[j].name # b.name
                /\ PlanAll[j].timestamp >= b.timestamp}
    \* the backups of the plan that are in the tier of b and newer than b
        NewerInTier(b) ==
            {j \in 1..Len(PlanAll) :
                /\ PlanAll[j].tier = b.tier
                /\ PlanAll[j].name # b.name
                /\ PlanAll[j].timestamp > b.timestamp}
    IN  rPc = "done" =>
            /\ \A j \in 1..Len(PlanAll) :
                  LET b == PlanAll[j]
                  IN  b.tier \in DOMAIN rTiers =>
                        /\ Kept(b) =>
                              \/ rPreserve /\ b.tagged
                              \/ Cardinality(NewerInTier(b)) < rTiers[b.tier].keep
                        /\ (rPreserve /\ b.tagged) => Kept(b)
                        /\ Cardinality(NotOlderInTier(b)) < rTiers[b.tier].keep => Kept(b)
            /\ \A t \in DOMAIN rTiers :
                  Cardinality({j \in 1..Len(rPlan.keep) :
                                  rPlan.keep[j].tier = t /\ ~rPlan.keep[j].tagged})
                      <= rTiers[t].keep

\* C20 witness: a tier with keep 1 of which an untagged backup is kept,
\* another one that is not newer is deleted, and a tagged one that is not
\* newer is kept
C20_Witness ==
    /\ rPc = "done" /\ rPreserve
    /\ \E t \in DOMAIN rTiers :
          /\ rTiers[t].keep = 1
          /\ \E i, k \in 1..Len(rPlan.keep), j \in 1..Len(rPlan.delete) :
                /\ rPlan.keep[i].tier = t /\ ~rPlan.keep[i].tagged
                /\ rPlan.delete[j].tier = t
                /\ rPlan.delete[j].timestamp <= rPlan.keep[i].timestamp
                /\ rPlan.keep[k].tier = t /\ rPlan.keep[k].tagged
                /\ rPlan.keep[k].timestamp <= rPlan.keep[i].timestamp

\* C21: of the uncategorized backups every tagged one is kept when
\* preserve_tagged is set, and of the remainder exactly min(3, count) are
\* kept, none of them older than a deleted one, however many tagged
\* uncategorized backups there are
C21_ArchivalFloor ==
    LET unc == {j \in 1..Len(PlanAll) : PlanAll[j].tier = "uncategorized"}
        rest == {j \in unc : ~(rPreserve /\ PlanAll[j].tagged)}
        kept == {j \in rest : Kept(PlanAll[j])}
        floor == IF Cardinality(rest) < UNCATEGORIZED_ARCHIVE_KEEP
                 THEN Cardinality(rest) ELSE UNCATEGORIZED_ARCHIVE_KEEP
    IN  rPc = "done" =>
            /\ \A j \in unc : (rPreserve /\ PlanAll[j].tagged) => Kept(PlanAll[j])
            /\ Cardinality(kept) = floor
            /\ \A j \in kept, d \in rest \ kept :
                  PlanAll[j].timestamp >= PlanAll[d].timestamp

(***************************************************************************)
(* Retention planner: histories of one calendar day                        *)
(***************************************************************************)
\* longest history of one day handed to the planner
MaxDayHist == 6

\* one more untagged artifact of the same calendar day, taken in a later hour
AddDayHistory(ts) ==
    /\ rPc = "input"
    /\ Len(rListing) < MaxDayHist
    /\ \A i \in 1..Len(rListing) :
          /\ DateOf(rListing[i].mtime) = DateOf(ts)
          /\ HourOf(rListing[i].mtime) < HourOf(ts)
    /\ rListing' = Append(rListing,
            [name |-> Len(rListing) + 1, mtime |-> ts,
             side |-> [state |-> "ok", has_ts |-> TRUE, ts |-> ts, tags |-> {},
                       keep_forever |-> FALSE, pinned |-> FALSE,
                       importance |-> "normal"]])
    /\ UNCHANGED <<rTiers, rPreserve, rPlan, rPc>>
    /\ UNCHANGED engVars
    /\ UNCHANGED batchVars

DayNext ==
    \* {hourly: keep 2, daily: keep 2} with the age windows of DEFAULT_TIERS and
    \* with an hourly window of five hours
    LET DayTierConfigs ==
            {[t \in {"hourly", "daily"} |->
                IF t = "hourly" THEN [keep |-> 2, max_age |-> w] ELSE [keep |-> 2, max_age |-> 7]] :
             w \in {5, 24}}
    \* the backup times of a day: on the hour and half past, from 01:00 to 08:30,
    \* of the day of the run (2.5 to 9.5 hours old) and of the day before
        DayTimes ==
            {(d * TicksPerDay) + (h * TicksPerHour) + m :
                d \in {DateOf(RetNow) - 1, DateOf(RetNow)}, h \in 1..8, m \in {0, 1}}
    IN  \/ \E ts \in DayTimes : AddDayHistory(ts)
        \/ \E tiers \in DayTierConfigs, p \in BOOLEAN : RunPlan(tiers, p)

SpecDay == RetInit /\ [][DayNext]_vars

\* the plan ran on six untagged backups of six different hours of one day
SixOfOneDay ==
    /\ rPc = "done"
    /\ Len(rListing) = 6
    /\ \A i, j \in 1..6 :
          /\ DateOf(rListing[i].mtime) = DateOf(rListing[j].mtime)
          /\ i # j => HourOf(rListing[i].mtime) # HourOf(rListing[j].mtime)
    /\ \A i \in 1..6 : ~TaggedOf(rListing[i].side)

\* what the plan of the six backups is said to be: two kept in hourly, at
\* most one kept in daily, every other backup in the delete list
SixPlan ==
    \* the backups of the keep list that are in tier t
    LET KeptIn(t) == SelectSeq(rPlan.keep, LAMBDA b : b.tier = t)
    IN  /\ Len(KeptIn("hourly")) = 2
        /\ Len(KeptIn("daily")) <= 1
        /\ Len(rPlan.keep) = Len(KeptIn("hourly")) + Len(KeptIn("daily"))
        /\ Len(rPlan.delete) = 6 - Len(rPlan.keep)

\* C11 as stated: with {hourly: keep 2, daily: keep 2} and six untagged
\* backups of six different hours of one calendar day, the plan keeps
\* exactly 2 in hourly, at most 1 in daily, and deletes every other backup
C11_SixHourlyAsStated == SixOfOneDay => SixPlan

\* every backup of the history is inside the age window of the hourly tier
AllInHourlyWindow ==
    \A i \in 1..Len(rListing) :
        RetNow - rListing[i].mtime <= rTiers["hourly"].max_age * TicksPerHour

\* C11 amended: when the six backups are all inside the age window of the
\* hourly tier, the plan keeps exactly 2 in hourly, at most 1 in daily, and
\* deletes every other backup
C11_SixHourlyInWindow == (SixOfOneDay /\ AllInHourlyWindow) => SixPlan

\* C11 witness: six backups inside the hourly window, of which the plan
\* keeps the two newest and deletes four
C11_Witness ==
    /\ SixOfOneDay /\ AllInHourlyWindow
    /\ Len(rPlan.delete) = 4
    /\ \A i \in 1..2 : rPlan.keep[i].timestamp > rPlan.delete[1].timestamp

(***************************************************************************)
(* Backup engine: one project, one database and one git repository, each   *)
(* with its directory below the local root and below the secondary root.   *)
(***************************************************************************)
\* operations of one behaviour
MaxOps == 3

\* operations of one behaviour that run with an injected failure
MaxFaults == 1

\* 2026-01-02 10:30
EngStart == RetNow

\* free space of the backup volume in MB: too little for any backup, enough
\* for every backup
FreeChoices == {20, 2000}

\* the source tree of the project when the engine starts
InitialSrc ==
    (<<"app", "a.py">> :> [mtime |-> EngStart - 10, size |-> 10])
    @@ (<<"app", "b.py">> :> [mtime |-> EngStart - 10, size |-> 20])
    @@ (<<"app", ".env">> :> [mtime |-> EngStart - 10, size |-> 1])
    @@ (<<"app", "debug.log">> :> [mtime |-> EngStart - 10, size |-> 5])

\* the files whose unlink can be made to fail during a cleanup over S
BadChoices(S) == {NoPath} \cup S \cup {BackupNameToMetaName(p) : p \in S}

World == [local |-> local, mirror |-> mirror, dirs |-> dirs]

EngInit ==
    /\ now = EngStart
    /\ free = 2000
    /\ syncOn \in BOOLEAN
    /\ local = <<>> /\ mirror = <<>> /\ dirs = {}
    /\ snap = NoSnapshot
    /\ src = InitialSrc
    /\ dest = <<>>
    /\ last = [op |-> "none"]
    /\ ops = 0
    /\ faults = 0
    /\ call = [pc |-> "idle"]
    /\ RetIdle
    /\ BatchIdle

\* what every backup operation does to the state with the result r of its
\* run
BackupStep(op, r, f, injected) ==
    /\ injected => faults < MaxFaults
    /\ faults' = IF injected THEN faults + 1 ELSE faults
    /\ local' = r.w.local
    /\ mirror' = r.w.mirror
    /\ dirs' = r.w.dirs
    /\ snap' = r.snap
    /\ free' = f
    /\ last' = [op |-> op, ok |-> r.ok, started |-> r.started, path |-> r.path,
                backup_type |-> r.backup_type]
    /\ now' = now + 1
    /\ ops' = ops + 1
    /\ UNCHANGED <<syncOn, src, dest, call>>
    /\ UNCHANGED retVars
    /\ UNCHANGED batchVars

\* backup_project(project_name, incremental) with f MB free
BackupProject(incremental, f, fail, bad) ==
    /\ ops < MaxOps
    /\ bad # NoPath => fail = "none"
    /\ LET path == ProjectBackupPath(local, incremental, now)
           S    == GlobArtifacts(local, "projects", {"tar.gz", "sql.gz"}) \cup {path}
       IN  /\ bad \in BadChoices(S)
           /\ \E order \in ListingOrders(S, bad) :
                 BackupStep("backup_project",
                     BackupProjectRun([w |-> World, snap |-> snap, src |-> src, free |-> f],
                         incremental,
                         [now |-> now, sync_on |-> syncOn, fail |-> fail,
                          order |-> order, bad |-> bad]),
                     f, fail # "none" \/ bad # NoPath)

\* backup_project_complete(project_name) with f MB free
BackupProjectComplete(f, fail, bad) ==
    /\ ops < MaxOps
    /\ bad # NoPath => fail = "none"
    /\ LET S == GlobArtifacts(local, "projects", {"tar.gz", "sql.gz"}) \cup {CompletePath}
       IN  /\ bad \in BadChoices(S)
           /\ \E order \in ListingOrders(S, bad) :
                 BackupStep("backup_project_complete",
                     BackupProjectCompleteRun(
                         [w |-> World, snap |-> snap, src |-> src, free |-> f],
                         [now |-> now, sync_on |-> syncOn, fail |-> fail,
                          order |-> order, bad |-> bad]),
                     f, fail # "none" \/ bad # NoPath)

\* backup_database(db_name) with backup.compress = compress and f MB free
BackupDatabase(compress, f, fail, bad) ==
    /\ ops < MaxOps
    /\ bad # NoPath => fail = "none"
    /\ LET path == DatabaseBackupPath(compress, now)
           S    == GlobArtifacts(Put(local, path, DataFile(DumpBytes, now)),
                                 "databases", {"tar.gz", "sql.gz"})
       IN  /\ bad \in BadChoices(S)
           /\ \E order \in ListingOrders(S, bad) :
                 BackupStep("backup_database",
                     BackupDatabaseRun(
                         [w |-> World, snap |-> snap, src |-> src, free |-> f],
                         compress,
                         [now |-> now, sync_on |-> syncOn, fail |-> fail,
                          order |-> order, bad |-> bad]),
                     f, fail # "none" \/ bad # NoPath)

\* backup_git(project_name)
BackupGit(fail, bad) ==
    /\ ops < MaxOps
    /\ bad # NoPath => fail = "none"
    /\ LET S == GlobArtifacts(local, "git", {"bundle"}) \cup {GitBackupPath(now)}
       IN  /\ bad \in BadChoices(S)
           /\ \E order \in ListingOrders(S, bad) :
                 BackupStep("backup_git",
                     BackupGitRun(
                         [w |-> World, snap |-> snap, src |-> src, free |-> free],
                         [now |-> now, sync_on |-> syncOn, fail |-> fail,
                          order |-> order, bad |-> bad]),
                     free, fail # "none" \/ bad # NoPath)

\* time passes
AdvanceClock ==
    \* the jump of the clock between two operations that are not back to back
    LET ClockJump == 31 * TicksPerDay
    IN  /\ ops < MaxOps
        /\ now' = now + ClockJump
        /\ ops' = ops + 1
        /\ last' = [op |-> "clock"]
        /\ UNCHANGED <<free, syncOn, local, mirror, dirs, snap, src, dest, faults, call>>
        /\ UNCHANGED retVars
        /\ UNCHANGED batchVars

BackupNext ==
    \* the steps of a backup at which a failure is injected
    LET FailPoints ==
            {"none", "archive", "chmod", "checksum", "sidecar_write", "sync_mkdir",
             "sync_meta", "symlink", "snapshot"}
    IN  \/ \E inc \in BOOLEAN, f \in FreeChoices, fail \in FailPoints, bad \in BadChoices(DOMAIN local) :
              BackupProject(inc, f, fail, bad)
        \/ \E f \in FreeChoices, fail \in FailPoints, bad \in BadChoices(DOMAIN local \cup {CompletePath}) :
              BackupProjectComplete(f, fail, bad)
        \/ \E c \in BOOLEAN, f \in FreeChoices, fail \in FailPoints, bad \in BadChoices(DOMAIN local) :
              BackupDatabase(c, f, fail, bad)
        \/ \E fail \in FailPoints, bad \in BadChoices(DOMAIN local) : BackupGit(fail, bad)
        \/ AdvanceClock

SpecBackup == EngInit /\ [][BackupNext]_vars

\* the arguments tag_backup is called with
TagChoices ==
    {[tags |-> {"wip"}, importance |-> "unset", keep_forever |-> "unset"],
     [tags |-> {}, importance |-> "unset", keep_forever |-> "true"]}

\* tag_backup on an artifact of the local root
TagBackup(path, arg) ==
    /\ ops < MaxOps
    /\ path \in GlobArtifacts(local, path.dir, {"tar.gz", "sql.gz", "sql", "bundle"})
    /\ LET r == TagBackupRun(local, path, arg.tags, arg.importance, arg.keep_forever, now)
       IN  /\ local' = r.fs
           /\ last' = [op |-> "tag", ok |-> r.ok, path |-> path]
    /\ now' = now + 1
    /\ ops' = ops + 1
    /\ UNCHANGED <<free, syncOn, mirror, dirs, snap, src, dest, faults, call>>
    /\ UNCHANGED retVars
    /\ UNCHANGED batchVars

\* apply_tiered_retention(item_type, item, custom_tiers, preserve_tagged,
\* dry_run) with the retention_tiers setting `setting`
ApplyTieredRetention(item_type, custom_tiers, setting, preserve_tagged, dry_run, bad) ==
    /\ ops < MaxOps
    /\ custom_tiers # <<>> => setting = <<>>
    /\ bad # NoPath => (faults < MaxFaults /\ ~dry_run)
    /\ bad \in BadChoices(GlobArtifacts(local, RetentionDir(item_type),
                                        {RetentionExt(item_type)}))
    /\ LET r == ApplyTieredRetentionRun(local,
                    <<"local", RetentionDir(item_type)>> \in dirs, item_type,
                    custom_tiers, default_tiers(setting), preserve_tagged, dry_run,
                    now, bad)
       IN  /\ local' = r.fs
           /\ last' = [op |-> "tiered", item_type |-> item_type,
                       custom_tiers |-> custom_tiers, setting |-> setting,
                       preserve_tagged |-> preserve_tagged, dry_run |-> dry_run,
                       report |-> r.report]
    /\ faults' = IF bad # NoPath THEN faults + 1 ELSE faults
    /\ now' = now + 1
    /\ ops' = ops + 1
    /\ UNCHANGED <<free, syncOn, mirror, dirs, snap, src, dest, call>>
    /\ UNCHANGED retVars
    /\ UNCHANGED batchVars

\* optimize_all_retention(dry_run) with the retention_tiers setting `setting`
OptimizeAllRetention(setting, dry_run, bad) ==
    /\ ops < MaxOps
    /\ bad # NoPath => (faults < MaxFaults /\ ~dry_run)
    /\ bad \in BadChoices(GlobArtifacts(local, "projects", {"tar.gz"})
                          \cup GlobArtifacts(local, "databases", {"sql.gz"}))
    /\ LET r == OptimizeAllRetentionRun(local, dirs, default_tiers(setting), dry_run,
                                        now, bad)
       IN  /\ local' = r.fs
           /\ last' = [op |-> "optimize", setting |-> setting, dry_run |-> dry_run,
                       results |-> r.results]
    /\ faults' = IF bad # NoPath THEN faults + 1 ELSE faults
    /\ now' = now + 1
    /\ ops' = ops + 1
    /\ UNCHANGED <<free, syncOn, mirror, dirs, snap, src, dest, call>>
    /\ UNCHANGED retVars
    /\ UNCHANGED batchVars

\* backups whose only failures are unlinks of the retention cleanup, tags
\* and the tiered retention
TieredNext ==
    \* the values of the retention_tiers setting
    LET TierSettings == {<<>>, [t \in {"daily"} |-> [keep |-> 0, max_age |-> 7]]}
    IN  \/ \E inc \in BOOLEAN, f \in FreeChoices, bad \in BadChoices(DOMAIN local) :
              BackupProject(inc, f, "none", bad)
        \/ \E f \in FreeChoices, bad \in BadChoices(DOMAIN local) :
              BackupDatabase(TRUE, f, "none", bad)
        \/ AdvanceClock
        \/ \E path \in DOMAIN local, arg \in TagChoices : TagBackup(path, arg)
        \/ \E item_type \in {"project", "database"}, custom_tiers \in RetTierConfigs \cup {<<>>},
              setting \in TierSettings, preserve_tagged \in BOOLEAN, dry_run \in BOOLEAN,
              bad \in BadChoices(DOMAIN local) :
              ApplyTieredRetention(item_type, custom_tiers, setting, preserve_tagged, dry_run, bad)
        \/ \E setting \in TierSettings, dry_run \in BOOLEAN, bad \in BadChoices(DOMAIN local) :
              OptimizeAllRetention(setting, dry_run, bad)

SpecTiered == EngInit /\ [][TieredNext]_vars

(***************************************************************************)
(* Properties of the backup operations                                     *)
(***************************************************************************)
BackupOps == {"backup_project", "backup_project_complete", "backup_database", "backup_git"}

\* the artifact at path with one of its bytes changed
Tampered(fs, path) == [fs EXCEPT ![path].bytes.taint = 1 - @]

\* C2: right after a successful backup of any kind verify_backup succeeds
\* on the new artifact, and it fails once the bytes of the artifact change
C2_VerifyAfterBackup ==
    (last.op \in BackupOps /\ last.ok) =>
        /\ VerifyBackup(local, last.path).ok
        /\ ~VerifyBackup(Tampered(local, last.path), last.path).ok

\* C5: a backup that fails after its artifact was started leaves neither
\* the artifact nor its .json sidecar in the local directory and no copy of
\* them in the mirror (a file that was there before and is untouched is not
\* counted as left behind)
C5_NothingLeftBehind ==
    [][(ops' = ops + 1 /\ last'.op \in BackupOps /\ last'.started /\ ~last'.ok) =>
          \A q \in {last'.path, BackupNameToMetaName(last'.path)} :
              /\ q \in DOMAIN local' => (q \in DOMAIN local /\ local'[q] = local[q])
              /\ q \in DOMAIN mirror' => (q \in DOMAIN mirror /\ mirror'[q] = mirror[q])]_vars

\* C10: with free space below required * 1.2, backup_project and
\* backup_project_complete fail and change no file of the local root or of
\* the mirror and leave the SnapshotIndex as it is, whether or not the
\* directory of the item exists
C10_NoWriteWhenSpaceLow ==
    \* the size backup_project and backup_project_complete ask the volume for
    [][LET RequiredSpace(op) ==
                IF op = "backup_project" THEN EstimatedCompressedSize(EstimateProjectSize(src))
                ELSE EstimatedCompressedSize(EstimateProjectSizeComplete(src))
        IN     (ops' = ops + 1 /\ last'.op \in {"backup_project", "backup_project_complete"}
                /\ free' * 10 < RequiredSpace(last'.op) * 12) =>
                  /\ ~last'.ok
                  /\ local' = local /\ mirror' = mirror /\ snap' = snap]_vars

(***************************************************************************)
(* Properties of the retention steps                                       *)
(***************************************************************************)
\* the artifacts of the local root
Artifacts(fs) == {p \in DOMAIN fs : p.ext \in {"tar.gz", "sql.gz", "bundle"} /\ fs[p].kind = "data"}

\* C8: a step that runs a retention (the cleanup at the end of a backup, or
\* the tiered retention) removes an artifact and its sidecar together:
\* of a pair that was there before, both are there afterwards or neither
C8_ArtifactAndSidecarTogether ==
    [][(ops' = ops + 1 /\ last'.op \in BackupOps \cup {"tiered", "optimize"}) =>
          \A p \in Artifacts(local) :
              BackupNameToMetaName(p) \in DOMAIN local =>
                  ((p \in DOMAIN local') <=> (BackupNameToMetaName(p) \in DOMAIN local'))]_vars

\* C9: a dry run of apply_tiered_retention or optimize_all_retention
\* changes no file, reports nothing deleted, and reports the plan a run
\* with dry_run false would execute on the same state
C9_DryRunChangesNothing ==
    \* the report a run with dry_run false gives in the state before the step
    [][LET RealTiered(op) ==
               ApplyTieredRetentionRun(local, <<"local", RetentionDir(op.item_type)>> \in dirs,
                   op.item_type, op.custom_tiers, default_tiers(op.setting),
                   op.preserve_tagged, FALSE, now, NoPath)
           RealOptimize(op) ==
               OptimizeAllRetentionRun(local, dirs, default_tiers(op.setting), FALSE, now, NoPath)
    \* the plan of a dry-run report is the plan the run with dry_run false
    \* executes: what it reports to delete is what the real run deletes, and
    \* what it reports to keep is what the real run leaves in the directory
           SamePlan(rep, real, fs, item_type) ==
               rep.error \/
                   /\ rep.deleted = {}
                   /\ rep.backups_to_delete = Cardinality(real.deleted)
                   /\ rep.backups_to_delete = real.backups_to_delete
                   /\ rep.backups_to_keep = real.backups_to_keep
                   /\ rep.backups_to_keep =
                         Cardinality(GlobArtifacts(fs, RetentionDir(item_type),
                                                   {RetentionExt(item_type)}))
       IN  (ops' = ops + 1 /\ last'.op \in {"tiered", "optimize"} /\ last'.dry_run) =>
              /\ local' = local /\ mirror' = mirror
              /\ last'.op = "tiered" =>
                    SamePlan(last'.report, RealTiered(last').report, RealTiered(last').fs,
                             last'.item_type)
              /\ last'.op = "optimize" =>
                    /\ last'.results.total_deleted = 0
                    /\ SamePlan(last'.results.projects, RealOptimize(last').results.projects,
                                RealOptimize(last').fs, "project")
                    /\ SamePlan(last'.results.databases, RealOptimize(last').results.databases,
                                RealOptimize(last').fs, "database")]_vars

\* C9 witness: a dry run whose plan has something to delete and something
\* to keep
C9_Witness ==
    /\ last.op = "tiered" /\ last.dry_run
    /\ ~last.report.error
    /\ last.report.backups_to_delete > 0
    /\ last.report.backups_to_keep > 0
    /\ Cardinality(Artifacts(local)) = last.report.total_backups

\* C28: no retention step breaks an incremental chain: when a tiered
\* retention run or a backup with its age cleanup has finished, every
\* incremental archive it kept has the full backup its sidecar names as
\* base_backup on disk, if that full backup was on disk before
C28_RetentionKeepsBases ==
    [][\A p \in Artifacts(local') :
          LET mp == SidecarPath(p)
          IN  (/\ mp \in DOMAIN local'
               /\ local'[mp].kind = "json"
               /\ local'[mp].meta.state = "ok"
               /\ local'[mp].meta.backup_type = "incremental"
               /\ local'[mp].meta.base_backup \in DOMAIN local) =>
                  local'[mp].meta.base_backup \in DOMAIN local']_vars

\* C15: a backup_project call that returns failure leaves the SnapshotIndex
\* file with the content it had before the call
C15_SnapshotOnlyOnSuccess ==
    [][(ops' = ops + 1 /\ last'.op = "backup_project" /\ ~last'.ok) => snap' = snap]_vars

\* C29: a backup operation that returns failure leaves every backup that was
\* complete before it as it was: the artifact is still there with the same
\* bytes and still verifies against its sidecar
C29_FailureKeepsEarlierBackups ==
    [][(ops' = ops + 1 /\ last'.op \in BackupOps /\ ~last'.ok) =>
          \A p \in Artifacts(local) :
              VerifyBackup(local, p).ok =>
                  /\ p \in DOMAIN local'
                  /\ local'[p].bytes = local[p].bytes
                  /\ VerifyBackup(local', p).ok]_vars

\* What the finalize stages of the backup taken at time t leave behind for
\* its artifact p: the 'latest' symlink made at t, the sidecar written at t
\* (a name without a known extension is its own sidecar, line 970), the
\* mirror copy made at t, and an older backup that the cleanup has deleted
LatestPoints(fs, p, t) ==
    \E l \in DOMAIN fs : fs[l].kind = "link" /\ fs[l].target = p /\ fs[l].mtime = t

SidecarWritten(fs, p, t) ==
    \/ SidecarPath(p) = p
    \/ /\ SidecarPath(p) \in DOMAIN fs
       /\ fs[SidecarPath(p)].kind = "json"
       /\ fs[SidecarPath(p)].meta.state = "ok"
       /\ fs[SidecarPath(p)].meta.timestamp = t

MirrorWritten(fs, p, t) == p \in DOMAIN fs /\ fs[p].mtime = t

CleanupDeleted(before, after, p) ==
    \E q \in DOMAIN before :
        /\ q \notin DOMAIN after
        /\ before[q].kind # "link"
        /\ ~(q.ts = p.ts /\ q.tag = p.tag)

\* C18 as stated: the finalize stages run as permissions, checksum and sidecar,
\* 'latest' symlink, mirror, retention cleanup, each after the one before has
\* succeeded; so a step that has written the mirror copy of its artifact has
\* already pointed 'latest' at it, a step that has pointed 'latest' at its
\* artifact has written the sidecar, and a step whose cleanup has deleted an
\* older backup has pointed 'latest' at its artifact.
C18_FinalizeOrderAsStated ==
    [][(ops' = ops + 1 /\ last'.op \in BackupOps /\ last'.started) =>
          /\ MirrorWritten(mirror', last'.path, now) =>
                 LatestPoints(local', last'.path, now)
          /\ LatestPoints(local', last'.path, now) =>
                 SidecarWritten(local', last'.path, now)
          /\ CleanupDeleted(local, local', last'.path) =>
                 LatestPoints(local', last'.path, now)]_vars

\* C18 amended: the finalize stages run as permissions, checksum and sidecar,
\* mirror, 'latest' symlink, retention cleanup, each after the one before has
\* succeeded; so a step that has pointed 'latest' at its artifact has already
\* mirrored it (when mirroring is on: the copy is in the mirror, or was there
\* unchanged and the cleanup that follows has deleted it), a step that has
\* written the mirror copy has written the sidecar, and a step whose cleanup
\* has deleted an older backup has pointed 'latest' at its artifact.
C18_FinalizeOrder ==
    [][(ops' = ops + 1 /\ last'.op \in BackupOps /\ last'.started) =>
          /\ (LatestPoints(local', last'.path, now) /\ syncOn) =>
                 (last'.path \in DOMAIN mirror' \/ last'.path \in DOMAIN mirror)
          /\ MirrorWritten(mirror', last'.path, now) =>
                 SidecarWritten(local', last'.path, now)
          /\ CleanupDeleted(local, local', last'.path) =>
                 LatestPoints(local', last'.path, now)]_vars

\* A backup step has mirrored its artifact and sidecar and then failed before
\* 'latest' was pointed at the artifact
C18_Witness ==
    /\ last.op \in BackupOps /\ last.started /\ ~last.ok /\ syncOn
    /\ MirrorWritten(mirror, last.path, now - 1)
    /\ SidecarPath(last.path) \in DOMAIN mirror
    /\ ~LatestPoints(local, last.path, now - 1)

\* C24: a project backup that finds the baseline unusable (no full backup,
\* or the SnapshotIndex missing or unreadable) and succeeds is a full backup
\* in every respect: the archive holds every non-excluded file, the artifact
\* is named _full.tar.gz, and the sidecar records backup_type 'full' and no
\* base_backup
C24_DegradesToFull ==
    [][(/\ ops' = ops + 1 /\ last'.op = "backup_project" /\ last'.ok
        /\ \/ {p \in GlobArtifacts(local, "projects", {"tar.gz"}) : p.tag = "full"} = {}
           \/ snap.state # "ok") =>
          /\ last'.path.tag = "full"
          /\ DOMAIN local'[last'.path].bytes.members = Eligible(src)
          /\ local'[SidecarPath(last'.path)].meta.backup_type = "full"
          /\ local'[SidecarPath(last'.path)].meta.base_backup = NoPath]_vars

\* C27: between operations, a latest link that exists points to an artifact
\* that exists in the same directory
C27_LatestNeverDangles ==
    \A l \in DOMAIN local :
        local[l].kind = "link" =>
            /\ local[l].target \in DOMAIN local
            /\ local[l].target.dir = l.dir

(***************************************************************************)
(* Incremental backups of a source tree that changes                       *)
(***************************************************************************)
\* the sizes a written file can have
SrcSizes == {10, 30}

\* a file of the source tree is created or rewritten; mtime is the time of
\* the write, or an older time that the writer sets (os.utime, cp -p, an
\* extraction that restores the times)
SrcWrite(f, size, mtime) ==
    /\ ops < MaxOps
    /\ src' = Put(src, f, [mtime |-> mtime, size |-> size])
    /\ last' = [op |-> "src_write"]
    /\ now' = now + 1
    /\ ops' = ops + 1
    /\ UNCHANGED <<free, syncOn, local, mirror, dirs, snap, dest, faults, call>>
    /\ UNCHANGED retVars
    /\ UNCHANGED batchVars

\* a file of the source tree is deleted
SrcDelete(f) ==
    /\ ops < MaxOps
    /\ f \in DOMAIN src
    /\ src' = Remove(src, f)
    /\ last' = [op |-> "src_delete"]
    /\ now' = now + 1
    /\ ops' = ops + 1
    /\ UNCHANGED <<free, syncOn, local, mirror, dirs, snap, dest, faults, call>>
    /\ UNCHANGED retVars
    /\ UNCHANGED batchVars

\* backup_project(incremental = True): the first one is forced to be the
\* full backup, the others are incremental
IncrNext ==
    \/ \E f \in SrcPaths, size \in SrcSizes, mtime \in {now, EngStart - 20} :
          SrcWrite(f, size, mtime)
    \/ \E f \in SrcPaths : SrcDelete(f)
    \/ \E f \in FreeChoices : BackupProject(TRUE, f, "none", NoPath)

SpecIncr == EngInit /\ [][IncrNext]_vars

\* C3: after one full backup and any number of incremental backups,
\* extracting the full archive and then the incremental archives in
\* creation order gives exactly the non-excluded files of the source tree
\* of the last incremental backup
C3_ReplayEqualsSource ==
    \* the tree that extracting the full archive and then every incremental
    \* archive in creation order gives
    LET Replay(fs) ==
            ExtractInOrder(fs,
                InCreationOrder({p \in GlobArtifacts(fs, "projects", {"tar.gz"}) :
                                    p.tag \in {"full", "incr"}}),
                1, <<>>)
    IN  (last.op = "backup_project" /\ last.ok /\ last.backup_type = "incremental") =>
            DOMAIN Replay(local) = Eligible(src)

\* C22: an incremental backup leaves a non-excluded regular file out of the
\* archive only if the SnapshotIndex has an entry for its path whose mtime
\* and size both equal the file's current mtime and size
C22_IncrementalSkipRule ==
    [][(ops' = ops + 1 /\ last'.op = "backup_project" /\ last'.ok
        /\ last'.backup_type = "incremental") =>
          \A f \in Eligible(src) :
              (~IsLink(src[f]) /\ f \notin DOMAIN local'[last'.path].bytes.members) =>
                  /\ snap.state = "ok"
                  /\ f \in DOMAIN snap.idx
                  /\ snap.idx[f].mtime = src[f].mtime
                  /\ snap.idx[f].size = src[f].size]_vars

\* C23: after a successful full or incremental project backup the
\* SnapshotIndex has entries only for paths that were eligible for the
\* archive: none with a component starting with '_' or '.', none matched by
\* an exclude pattern
C23_SnapshotOnlyEligible ==
    [][(ops' = ops + 1 /\ last'.op = "backup_project" /\ last'.ok) =>
          (snap'.state = "ok" /\ DOMAIN snap'.idx \subseteq Eligible(src))]_vars

(***************************************************************************)
(* Batch operations: backup_all_projects, backup_all_projects_complete,    *)
(* backup_all_databases, backup_all_git                                    *)
(***************************************************************************)
\* configured items of one batch
MaxItems == 3

\* the per-item operation up to its first return: "ok", "fail" for a
\* (False, message) result, "raised" for an exception that leaves it.
\* backup_project, backup_project_complete and backup_git validate the name
\* before their try block; backup_database catches the ValueError.
ItemRun(kind, item) ==
    IF kind = "databases"
    THEN IF ~item.enabled \/ ~item.valid_name THEN "fail" ELSE "ok"
    ELSE IF ~item.valid_name THEN "raised"
    ELSE IF kind # "git" /\ ~item.enabled THEN "fail"
    ELSE IF ~item.path_exists THEN "fail"
    ELSE "ok"

\* the positions of the items a batch runs: every configured item, and for
\* backup_all_git those whose path is a git repository
BatchList(kind, items) ==
    {i \in 1..Len(items) : kind = "git" => items[i].path_exists}

\* not parallel or len(names) <= 1
Sequential == ~bParallel \/ Cardinality(BatchList(bKind, bItems)) <= 1

BatchInit ==
    /\ bKind = "none" /\ bParallel = FALSE /\ bItems = <<>> /\ bPc = "config"
    /\ bNext = 0 /\ bFutures = <<>> /\ bResults = <<>>
    /\ bg = [second |-> 1, objs |-> <<>>, tasks |-> <<>>, threads |-> <<>>]
    /\ EngIdle
    /\ RetIdle

\* one more item in the configuration
AddItem(item) ==
    /\ bPc = "config"
    /\ Len(bItems) < MaxItems
    /\ bItems' = Append(bItems, item)
    /\ UNCHANGED <<bKind, bParallel, bPc, bNext, bFutures, bResults, bg>>
    /\ UNCHANGED retVars
    /\ UNCHANGED engVars

\* backup_all_*(parallel) up to the first item; without items the call
\* returns at once, backup_all_git with an "error" entry (position 0)
StartBatch(kind, parallel) ==
    /\ bPc = "config"
    /\ bKind' = kind
    /\ bParallel' = parallel
    /\ bNext' = 1
    /\ bFutures' = IF parallel /\ Cardinality(BatchList(kind, bItems)) > 1
                   THEN [i \in BatchList(kind, bItems) |-> "pending"]
                   ELSE <<>>
    /\ bResults' = IF kind = "git" /\ BatchList(kind, bItems) = {}
                   THEN (0 :> "fail") ELSE <<>>
    /\ bPc' = IF BatchList(kind, bItems) = {} THEN "done" ELSE "running"
    /\ UNCHANGED <<bItems, bg>>
    /\ UNCHANGED retVars
    /\ UNCHANGED engVars

\* one round of the sequential loop: results[name] = self.backup_*(name);
\* an exception of the operation leaves the loop and the batch
SeqStep ==
    \* the position in bItems of the k-th item of the batch
    LET NthOfBatch(k) ==
            CHOOSE i \in BatchList(bKind, bItems) :
                Cardinality({j \in BatchList(bKind, bItems) : j < i}) = k - 1
    IN  /\ bPc = "running"
        /\ Sequential
        /\ LET i == NthOfBatch(bNext)
               out == ItemRun(bKind, bItems[i])
           IN  IF out = "raised"
               THEN /\ bPc' = "raised"
                    /\ UNCHANGED <<bNext, bResults>>
               ELSE /\ bResults' = (i :> out) @@ bResults
                    /\ bNext' = bNext + 1
                    /\ bPc' = IF bNext = Cardinality(BatchList(bKind, bItems))
                              THEN "done" ELSE "running"
        /\ UNCHANGED <<bKind, bParallel, bItems, bFutures, bg>>
        /\ UNCHANGED retVars
        /\ UNCHANGED engVars

\* a worker of the pool runs the operation of item i; the future holds its
\* result or its exception
Worker(i) ==
    /\ bPc = "running"
    /\ ~Sequential
    /\ i \in DOMAIN bFutures
    /\ bFutures[i] = "pending"
    /\ bFutures' = [bFutures EXCEPT ![i] = ItemRun(bKind, bItems[i])]
    /\ UNCHANGED <<bKind, bParallel, bItems, bPc, bNext, bResults, bg>>
    /\ UNCHANGED retVars
    /\ UNCHANGED engVars

\* one round of the loop over as_completed: future.result() or, for an
\* exception, the failure entry
Collect(i) ==
    /\ bPc = "running"
    /\ ~Sequential
    /\ i \in DOMAIN bFutures
    /\ bFutures[i] # "pending"
    /\ i \notin DOMAIN bResults
    /\ bResults' = (i :> IF bFutures[i] = "raised" THEN "fail" ELSE bFutures[i]) @@ bResults
    /\ bPc' = IF DOMAIN bFutures = DOMAIN bResults \cup {i} THEN "done" ELSE "running"
    /\ UNCHANGED <<bKind, bParallel, bItems, bNext, bFutures, bg>>
    /\ UNCHANGED retVars
    /\ UNCHANGED engVars

BatchNext ==
    LET BatchKinds == {"projects", "projects_complete", "databases", "git"}
    \* a configured item: its name passes _validate_identifier, its backup is
    \* enabled, its path exists.  The configuration validates none of these.
        ItemKinds ==
            {[valid_name |-> TRUE, enabled |-> TRUE, path_exists |-> TRUE],
             [valid_name |-> TRUE, enabled |-> FALSE, path_exists |-> TRUE],
             [valid_name |-> TRUE, enabled |-> TRUE, path_exists |-> FALSE],
             [valid_name |-> FALSE, enabled |-> TRUE, path_exists |-> TRUE]}
    IN  \/ \E item \in ItemKinds : AddItem(item)
        \/ \E kind \in BatchKinds, parallel \in BOOLEAN : StartBatch(kind, parallel)
        \/ SeqStep
        \/ \E i \in 1..MaxItems : Worker(i)
        \/ \E i \in 1..MaxItems : Collect(i)

SpecBatch == BatchInit /\ [][BatchNext]_vars

\* C4: a batch returns a result for each of its items, in sequential and in
\* parallel mode: no exception of an item leaves the batch, and every item
\* has the result its operation gives when run alone, a failure entry when
\* the operation fails or raises
C4_BatchIsolatesFailures ==
    \* the result of the per-item operation run alone through the batch
    LET Alone(kind, item) == IF ItemRun(kind, item) = "raised" THEN "fail" ELSE ItemRun(kind, item)
    IN  /\ bPc # "raised"
        /\ bPc = "done" =>
              \A i \in BatchList(bKind, bItems) :
                  i \in DOMAIN bResults /\ bResults[i] = Alone(bKind, bItems[i])

(***************************************************************************)
(* Restores                                                                *)
(***************************************************************************)
\* what is in the parent directory of the project before any restore: the
\* project directory with local changes, and another directory
DestInit ==
    (DirKey("app", 0) :> ((<<"a.py">> :> [mtime |-> 1, size |-> 99])
                          @@ (<<"notes.txt">> :> [mtime |-> 1, size |-> 7])))
    @@ (DirKey("restored", 0) :> (<<"keep.txt">> :> [mtime |-> 1, size |-> 3]))

\* the names a restore path can have
RestoreTargets == {"app", "restored"}

RestoreInit ==
    /\ now = EngStart
    /\ free = 2000
    /\ syncOn \in BOOLEAN
    /\ local = <<>> /\ mirror = <<>> /\ dirs = {}
    /\ snap = NoSnapshot
    /\ src = InitialSrc
    /\ dest = DestInit
    /\ last = [op |-> "none"]
    /\ ops = 0
    /\ faults = 0
    /\ call = [pc |-> "idle"]
    /\ RetIdle
    /\ BatchIdle

\* the bytes of an artifact change on disk
Tamper(path) ==
    /\ ops < MaxOps
    /\ path \in Artifacts(local)
    /\ local[path].bytes.taint = 0
    /\ local' = Tampered(local, path)
    /\ last' = [op |-> "tamper", path |-> path]
    /\ now' = now + 1
    /\ ops' = ops + 1
    /\ UNCHANGED <<free, syncOn, mirror, dirs, snap, src, dest, faults, call>>
    /\ UNCHANGED retVars
    /\ UNCHANGED batchVars

\* an archive that backup_project did not make is put in the backup
\* directory of the project together with a sidecar that holds its checksum
PlaceArchive(members) ==
    /\ ops < MaxOps
    /\ LET path == [dir |-> "projects", ts |-> now, tag |-> "full", ext |-> "tar.gz"]
           fs1  == Put(local, path, DataFile([members |-> members, taint |-> 0], now))
       IN  /\ local' = CreateBackupMetadata(fs1, path, now,
                           [backup_type |-> "full", base_backup |-> NoPath], "none").fs
           /\ last' = [op |-> "place_archive", path |-> path]
    /\ now' = now + 1
    /\ ops' = ops + 1
    /\ UNCHANGED <<free, syncOn, mirror, dirs, snap, src, dest, faults, call>>
    /\ UNCHANGED retVars
    /\ UNCHANGED batchVars

\* what every restore does to the state with the result r of its run
RestoreStep(op, path, target, r) ==
    /\ ops < MaxOps
    /\ dest' = r.dst
    /\ last' = [op |-> op, path |-> path, target |-> target, ok |-> r.ok]
    /\ now' = now + 1
    /\ ops' = ops + 1
    /\ UNCHANGED <<free, syncOn, local, mirror, dirs, snap, src, faults, call>>
    /\ UNCHANGED retVars
    /\ UNCHANGED batchVars

RestoreProject(path, target) ==
    /\ path \in GlobArtifacts(local, "projects", {"tar.gz"})
    /\ RestoreStep("restore_project", path, target,
                   RestoreProjectRun(local, dest, path, target, now))

RestoreDatabase(path) ==
    /\ path \in GlobArtifacts(local, "databases", {"sql.gz", "sql"})
    /\ RestoreStep("restore_database", path, "mysql", RestoreDatabaseRun(local, dest, path))

RestoreGit(path, target, mode, detects) ==
    /\ path \in GlobArtifacts(local, "git", {"bundle"})
    /\ RestoreStep("restore_git", path, target,
                   RestoreGitRun(local, dest, path, target, mode, detects, now))

\* selective_restore with files_to_restore = patterns
SelectiveRestore(path, patterns, target, preserve_structure, readable) ==
    /\ path \in GlobArtifacts(local, "projects", {"tar.gz"})
    /\ ops < MaxOps
    /\ LET r == SelectiveRestoreRun(local, dest, path, patterns, target,
                                    preserve_structure, readable)
       IN  /\ dest' = r.dst
           /\ last' = [op |-> "selective_restore", path |-> path, target |-> target,
                       ok |-> r.ok, patterns |-> patterns,
                       preserve_structure |-> preserve_structure,
                       restored |-> r.restored]
    /\ now' = now + 1
    /\ ops' = ops + 1
    /\ UNCHANGED <<free, syncOn, local, mirror, dirs, snap, src, faults, call>>
    /\ UNCHANGED retVars
    /\ UNCHANGED batchVars

RestoreNext ==
    \* the patterns of files_to_restore
    LET RestorePatterns == {"*", <<"app", "a.py">>}
    IN  \/ \E inc \in BOOLEAN, f \in FreeChoices : BackupProject(inc, f, "none", NoPath)
        \/ \E c \in BOOLEAN, f \in FreeChoices : BackupDatabase(c, f, "none", NoPath)
        \/ BackupGit("none", NoPath)
        \/ \E path \in DOMAIN local : Tamper(path)
        \/ \E m \in {<<"app", "..", "x.py">>, <<"/", "etc", "x.py">>, <<"out", "x.py">>,
                      <<"app", "x.py">>},
              alone \in BOOLEAN :
              PlaceArchive((m :> [mtime |-> now, size |-> 10])
                           @@ (IF alone THEN <<>>
                               ELSE <<"app", "a.py">> :> [mtime |-> now, size |-> 10]))
        \/ \E path \in DOMAIN local, target \in RestoreTargets : RestoreProject(path, target)
        \/ \E path \in DOMAIN local : RestoreDatabase(path)
        \/ \E path \in DOMAIN local, target \in RestoreTargets, mode \in {"clone", "fetch"},
              detects \in BOOLEAN : RestoreGit(path, target, mode, detects)
        \/ \E path \in DOMAIN local, pattern \in RestorePatterns, target \in RestoreTargets,
              preserve_structure \in BOOLEAN, readable \in BOOLEAN :
              SelectiveRestore(path, <<pattern>>, target, preserve_structure, readable)

SpecRestore == RestoreInit /\ [][RestoreNext]_vars

\* C6: a restore of an artifact whose checksum does not match its sidecar
\* returns failure and leaves the destination exactly as it was
C6_MismatchAbortsRestore ==
    [][LET RestoreOps == {"restore_project", "restore_database", "selective_restore", "restore_git"}
        IN     (ops' = ops + 1 /\ last'.op \in RestoreOps
                /\ VerifyBackup(local, last'.path).reason = "mismatch") =>
                  (~last'.ok /\ dest' = dest)]_vars

\* C7: a restore of a project neither merges into nor overwrites what is
\* there: every directory of the destination is afterwards either as it
\* was, or complete under a renamed-aside name that is new
C7_RestoreNeverOverwrites ==
    [][(ops' = ops + 1 /\ last'.op \in {"restore_project", "selective_restore"}) =>
          \A d \in DOMAIN dest :
              \/ d \in DOMAIN dest' /\ dest'[d] = dest[d]
              \/ \E a \in (DOMAIN dest') \ (DOMAIN dest) :
                    a.name = d.name /\ a.aside # 0 /\ dest'[a] = dest[d]]_vars

\* C25: restore_project of an archive with a member whose name is absolute,
\* has a '..' component or resolves outside the directory of the extraction
\* returns failure and writes no file: every directory of the destination
\* holds afterwards what a directory held before
C25_ValidatedBeforeWriting ==
    [][LET rejected(m) == m[1] = "/" \/ ".." \in {m[i] : i \in 1..Len(m)} \/ m[1] = "out"
       IN  (/\ ops' = ops + 1 /\ last'.op = "restore_project"
            /\ \E m \in DOMAIN local[last'.path].bytes.members : rejected(m)) =>
               /\ ~last'.ok
               /\ \A d \in DOMAIN dest' : \E d0 \in DOMAIN dest : dest'[d] = dest[d0]]_vars

\* C25 witness: a restore of a verified archive with a member to reject and
\* a safe member has failed after the existing directory was moved aside
C25_Witness ==
    /\ last.op = "restore_project" /\ ~last.ok
    /\ VerifyBackup(local, last.path).ok
    /\ \E m \in DOMAIN local[last.path].bytes.members : UnsafeMember(m)
    /\ \E m \in DOMAIN local[last.path].bytes.members : ~UnsafeMember(m)
    /\ \E d \in DOMAIN dest : d.name = last.target /\ d.aside # 0

(***************************************************************************)
(* Chains: a full backup, a source tree that changes, incremental backups  *)
(* and restores from the chain                                             *)
(***************************************************************************)

\* backup_project(incremental = True) on the empty backup root: no full
\* backup exists, so a full backup is made
FirstFull(sync_on) ==
    \* the archive of the first backup of the project, taken at EngStart
    LET FirstFullPath == [dir |-> "projects", ts |-> EngStart, tag |-> "full", ext |-> "tar.gz"]
    IN  BackupProjectRun(
            [w |-> [local |-> <<>>, mirror |-> <<>>, dirs |-> {}], snap |-> NoSnapshot,
             src |-> InitialSrc, free |-> 2000],
            TRUE,
            [now |-> EngStart, sync_on |-> sync_on, fail |-> "none",
             order |-> <<FirstFullPath>>, bad |-> NoPath])

\* the state right after the first backup, with or without a secondary root
AfterFirstFull(sync_on) ==
    LET r == FirstFull(sync_on)
    IN  /\ now = EngStart + 1
        /\ free = 2000
        /\ syncOn = sync_on
        /\ local = r.w.local
        /\ mirror = r.w.mirror
        /\ dirs = r.w.dirs
        /\ snap = r.snap
        /\ src = InitialSrc
        /\ dest = DestInit
        /\ last = [op |-> "backup_project", ok |-> r.ok, started |-> r.started,
                   path |-> r.path, backup_type |-> r.backup_type]
        /\ ops = 0
        /\ faults = 0
        /\ call = [pc |-> "idle"]
        /\ RetIdle
        /\ BatchIdle

\* a symlink to the file `target` is created at f in the source tree
SrcLink(f, target) ==
    /\ ops < MaxOps
    /\ f # target
    /\ target \in DOMAIN src
    /\ ~IsLink(src[target])
    /\ src' = Put(src, f, SymlinkTo(target, now))
    /\ last' = [op |-> "src_link"]
    /\ now' = now + 1
    /\ ops' = ops + 1
    /\ UNCHANGED <<free, syncOn, local, mirror, dirs, snap, dest, faults, call>>
    /\ UNCHANGED retVars
    /\ UNCHANGED batchVars

ChainNext ==
    \* the values of files_to_restore
    LET PatternLists ==
            {<<"*">>, <<"*.py">>, << <<"app", "a.py">> >>, <<"*", "*.py">>,
             << <<"app", "a.py">>, <<"app", "b.py">> >>}
    IN  \/ \E f \in SrcPaths, size \in SrcSizes : SrcWrite(f, size, now)
        \/ \E f \in SrcPaths : SrcDelete(f)
        \/ SrcLink(<<"app", "c.py">>, <<"app", "a.py">>)
        \/ \E f \in FreeChoices : BackupProject(TRUE, f, "none", NoPath)
        \/ \E path \in DOMAIN local, target \in RestoreTargets : RestoreProject(path, target)
        \/ \E path \in DOMAIN local, patterns \in PatternLists, target \in RestoreTargets,
              preserve_structure \in BOOLEAN :
              SelectiveRestore(path, patterns, target, preserve_structure, TRUE)

SpecChain == AfterFirstFull(FALSE) /\ [][ChainNext]_vars

\* the sidecar of the archive the last operation was about
LastMeta == local[[last.path EXCEPT !.ext = "json"]].meta

\* the member name m matches one of the patterns
MatchesAny(m, patterns) == \E k \in 1..Len(patterns) : Matches(m, patterns[k])

\* the member m was extracted from the archive `archive`
RestoredFrom(m, archive) ==
    \E i \in 1..Len(last.restored) :
        last.restored[i].member = m /\ last.restored[i].from = archive

\* C13: a selective restore from an incremental archive extracts every
\* matching member of the incremental archive from it, every matching member
\* that only the base_backup archive has from that archive, and no member
\* more than once
C13_SelectiveChainOnce ==
    \* the last operation was a selective restore from an incremental archive
    \* whose base_backup exists
    LET SelectiveFromChain ==
            /\ last.op = "selective_restore"
            /\ last.path.tag = "incr"
            /\ Len(BackupsToCheck(local, last.path)) = 2
    IN  SelectiveFromChain =>
            LET incr == local[last.path].bytes.members
                base_path == LastMeta.base_backup
                base == local[base_path].bytes.members
            IN  /\ \A m \in DOMAIN incr :
                      (MatchesAny(m, last.patterns) /\ ~IsLink(incr[m]))
                          => RestoredFrom(m, last.path)
                /\ \A m \in (DOMAIN base) \ (DOMAIN incr) :
                      (MatchesAny(m, last.patterns) /\ ~IsLink(base[m]))
                          => RestoredFrom(m, base_path)
                /\ \A i, j \in 1..Len(last.restored) :
                      last.restored[i].member = last.restored[j].member => i = j

\* C16: an incremental backup holds every file changed since the full
\* backup its sidecar names as base_backup: right after it, every
\* non-excluded file of the source tree has its current version in the
\* incremental archive or, if it is not there, in the base_backup archive
C16_IncrementalPlusBase ==
    (last.op = "backup_project" /\ last.ok /\ last.backup_type = "incremental") =>
        LET incr == local[last.path].bytes.members
            base == local[LastMeta.base_backup].bytes.members
        IN  \A f \in Eligible(src) :
                IF f \in DOMAIN incr THEN incr[f] = src[f]
                ELSE f \in DOMAIN base /\ base[f] = src[f]

\* C17: no restore creates a symlink or hardlink from an archive member (the
\* destination, which had none, has none), and the members that are not
\* links are restored: all of them by restore_project, the matching ones of
\* the named archive by selective_restore
C17_NoLinkRestored ==
    /\ \A d \in DOMAIN dest : \A f \in DOMAIN dest[d] : ~IsLink(dest[d][f])
    /\ (last.op = "restore_project" /\ last.ok) =>
          LET members == local[last.path].bytes.members
              root == DirKey(ProjectRoot, 0)
          IN  \A m \in DOMAIN members :
                  ~IsLink(members[m]) =>
                      /\ root \in DOMAIN dest
                      /\ Tail(m) \in DOMAIN dest[root]
                      /\ dest[root][Tail(m)] = members[m]
    /\ last.op = "selective_restore" =>
          LET members == local[last.path].bytes.members
          IN  \A m \in DOMAIN members :
                  (MatchesAny(m, last.patterns) /\ ~IsLink(members[m]))
                      => RestoredFrom(m, last.path)

(***************************************************************************)
(* Tagged backups and the retention cleanup at the end of every backup     *)
(***************************************************************************)
PinnedNext ==
    \/ \E path \in DOMAIN local, arg \in TagChoices : TagBackup(path, arg)
    \/ AdvanceClock
    \/ \E inc \in BOOLEAN, f \in FreeChoices : BackupProject(inc, f, "none", NoPath)
    \/ \E f \in FreeChoices : BackupDatabase(TRUE, f, "none", NoPath)

SpecPinned == (\E sync_on \in BOOLEAN : AfterFirstFull(sync_on)) /\ [][PinnedNext]_vars

\* C14: no backup operation deletes, from the local directory or from the
\* mirror, a backup that is pinned/keep_forever or carries a tag
C14_CleanupKeepsPinnedAndTagged ==
    \* the sidecar tag_backup writes for the artifact p says keep_forever or
    \* pinned, or holds a tag
    [][LET PinnedOrTagged(p) ==
                LET mp == BackupNameToMetaName(p)
                IN  /\ mp \in DOMAIN local
                    /\ local[mp].kind = "json"
                    /\ local[mp].meta.state = "ok"
                    /\ \/ local[mp].meta.keep_forever
                       \/ local[mp].meta.pinned
                       \/ local[mp].meta.tags # {}
        IN     (ops' = ops + 1 /\ last'.op \in BackupOps) =>
                  \A p \in Artifacts(local) :
                      PinnedOrTagged(p) =>
                          /\ p \in DOMAIN local'
                          /\ p \in DOMAIN mirror => p \in DOMAIN mirror']_vars

(***************************************************************************)
(* A backup and a manual retention run on the same project, concurrently  *)
(*                                                                         *)
(* Nothing serialises the two entry points.  The backup call is cut where  *)
(* _cleanup_old_backups has listed the directory (directory.glob reads the *)
(* directory once, then the loop walks that listing), the retention run    *)
(* where the plan is computed and the deletion loop has not started.       *)
(***************************************************************************)
\* backup_project(project_name, incremental) up to the listing of
\* _cleanup_old_backups: archive, snapshot, chmod, sidecar, mirror copy,
\* latest link, directory.glob
BackupProjectBegin(incremental) ==
    /\ ops < MaxOps
    /\ call.pc = "idle"
    /\ LET r == BackupProjectRun([w |-> World, snap |-> snap, src |-> src, free |-> free],
                    incremental,
                    [now |-> now, sync_on |-> syncOn, fail |-> "none",
                     order |-> <<>>, bad |-> NoPath])
       IN  /\ local' = r.w.local
           /\ mirror' = r.w.mirror
           /\ dirs' = r.w.dirs
           /\ snap' = r.snap
           /\ call' = [pc |-> "cleanup", path |-> r.path, backup_type |-> r.backup_type,
                       now |-> now,
                       listing |-> SomeOrder(GlobArtifacts(r.w.local, "projects",
                                                           {"tar.gz", "sql.gz"}))]
    /\ now' = now + 1
    /\ ops' = ops + 1
    /\ last' = [op |-> "backup_project_begin"]
    /\ UNCHANGED <<free, syncOn, src, dest, faults>>
    /\ UNCHANGED retVars
    /\ UNCHANGED batchVars

\* the rest of the call: the loop of _cleanup_old_backups over the listing,
\* the final stat of _finalize_backup, the except clause of backup_project
\* and the return
BackupProjectEnd ==
    /\ call.pc = "cleanup"
    /\ LET c == RunRetentionCleanup(World, "projects", {"tar.gz", "sql.gz"},
                    DEFAULT_PROJECT_RETENTION_DAYS, call.now, syncOn, call.listing, NoPath)
           raised == c.raised \/ call.path \notin DOMAIN c.w.local
           w1 == IF raised THEN CleanupPartial(c.w, call.path) ELSE c.w
       IN  /\ local' = w1.local
           /\ mirror' = w1.mirror
           /\ last' = [op |-> "backup_project", ok |-> ~raised, started |-> TRUE,
                       path |-> call.path, backup_type |-> call.backup_type]
    /\ call' = [pc |-> "idle"]
    /\ UNCHANGED <<now, free, syncOn, dirs, snap, src, dest, ops, faults>>
    /\ UNCHANGED retVars
    /\ UNCHANGED batchVars

\* apply_tiered_retention("project", name, custom_tiers, dry_run=False) up
\* to the plan (lines 58-80)
RetentionBegin(custom_tiers) ==
    /\ rPc = "idle"
    /\ <<"local", "projects">> \in dirs
    /\ rListing' = DirListing(local, "projects", "tar.gz")
    /\ rTiers' = custom_tiers
    /\ rPreserve' = TRUE
    /\ rPlan' = RetentionPlan(rListing', custom_tiers, TRUE, now)
    /\ rPc' = "planned"
    /\ UNCHANGED engVars
    /\ UNCHANGED batchVars

\* the deletion loop of the run (lines 82-102) and its return
RetentionEnd ==
    /\ rPc = "planned"
    /\ local' = ExecuteRetention(local, rPlan.delete, 1, FALSE, NoPath, {}).fs
    /\ rListing' = <<>>
    /\ rTiers' = <<>>
    /\ rPlan' = [keep |-> <<>>, delete |-> <<>>]
    /\ rPc' = "idle"
    /\ UNCHANGED rPreserve
    /\ UNCHANGED <<now, free, syncOn, mirror, dirs, snap, src, dest, last, ops, faults, call>>
    /\ UNCHANGED batchVars

RaceNext ==
    \/ \E inc \in BOOLEAN : call.pc = "idle" /\ BackupProject(inc, free, "none", NoPath)
    \/ \E inc \in BOOLEAN : BackupProjectBegin(inc)
    \/ BackupProjectEnd
    \/ \E tiers \in {t \in RetTierConfigs : \A n \in DOMAIN t : t[n].keep > 0} :
          RetentionBegin(tiers)
    \/ RetentionEnd

SpecRace == EngInit /\ [][RaceNext]_vars

\* C26: in every interleaving of a backup with a manual retention run on the
\* same project, the backup returns success and its artifact and its sidecar
\* exist when it returns
C26_BackupSurvivesRetention ==
    [][(call.pc = "cleanup" /\ call'.pc = "idle") =>
          /\ last'.ok
          /\ call.path \in DOMAIN local'
          /\ SidecarPath(call.path) \in DOMAIN local']_vars

(***************************************************************************)
(* utils/background_backup.py: BackgroundBackupManager                     *)
(*                                                                         *)
(* A BackupTask object is [task_type, status, started_at, completed_at],   *)
(* with 0 for None.  self.tasks maps a task_id, <<task_type, second>> for  *)
(* f"{task_type}_{target}_{int(time.time())}" with one target, to an       *)
(* object; a thread is [task_id, task, pc], task being the object the      *)
(* thread got from self.tasks (0 before it did).                           *)
(***************************************************************************)
\* most tasks scheduled in one run of the manager
MaxTasks == 2

\* schedule_backup(task_type, target) during the second `second` of the
\* clock: the task is stored under its id and the thread is started
ScheduleBackup(task_type, second) ==
    /\ Len(bg.objs) < MaxTasks
    /\ LET task_id == <<task_type, second>>
           task == [task_type |-> task_type, status |-> "pending",
                    started_at |-> 0, completed_at |-> 0]
       IN  bg' = [second |-> second,
                  objs |-> Append(bg.objs, task),
                  tasks |-> (task_id :> (Len(bg.objs) + 1)) @@ bg.tasks,
                  threads |-> Append(bg.threads, [task_id |-> task_id, task |-> 0,
                                                  pc |-> "start"])]
    /\ UNCHANGED <<bKind, bParallel, bItems, bPc, bNext, bFutures, bResults>>
    /\ UNCHANGED retVars
    /\ UNCHANGED engVars

\* _execute_backup lines 217-219 in thread i: task = self.tasks.get(task_id)
ExecuteGet(i) ==
    /\ i \in DOMAIN bg.threads
    /\ bg.threads[i].pc = "start"
    /\ bg' = IF bg.threads[i].task_id \in DOMAIN bg.tasks
             THEN [bg EXCEPT !.threads[i].task = bg.tasks[bg.threads[i].task_id],
                             !.threads[i].pc = "got"]
             ELSE [bg EXCEPT !.threads[i].pc = "done"]
    /\ UNCHANGED <<bKind, bParallel, bItems, bPc, bNext, bFutures, bResults>>
    /\ UNCHANGED retVars
    /\ UNCHANGED engVars

\* lines 222-227 in thread i: under the lock, status RUNNING and started_at
ExecuteRun(i) ==
    /\ i \in DOMAIN bg.threads
    /\ bg.threads[i].pc = "got"
    /\ bg' = [bg EXCEPT !.objs[bg.threads[i].task].status = "running",
                        !.objs[bg.threads[i].task].started_at = bg.second,
                        !.threads[i].pc = "running"]
    /\ UNCHANGED <<bKind, bParallel, bItems, bPc, bNext, bFutures, bResults>>
    /\ UNCHANGED retVars
    /\ UNCHANGED engVars

\* lines 229-309 in thread i: the branch of the task type with the outcome
\* `out` of the engine call, [raised, success, success_count, total_count],
\* then completed_at
ExecuteFinish(i, out) ==
    /\ i \in DOMAIN bg.threads
    /\ bg.threads[i].pc = "running"
    /\ LET k == bg.threads[i].task
           task_type == bg.objs[k].task_type
           known == task_type \in {"project", "database", "all-projects", "all-databases"}
           status ==
               IF ~known THEN bg.objs[k].status
               ELSE IF out.raised THEN "failed"
               ELSE IF task_type \in {"all-projects", "all-databases"}
               THEN IF out.success_count = out.total_count THEN "completed"
                    ELSE IF out.success_count > 0 THEN "completed"
                    ELSE "failed"
               ELSE IF out.success THEN "completed" ELSE "failed"
       IN  bg' = [bg EXCEPT !.objs[k].status = status,
                            !.objs[k].completed_at = bg.second,
                            !.threads[i].pc = "done"]
    /\ UNCHANGED <<bKind, bParallel, bItems, bPc, bNext, bFutures, bResults>>
    /\ UNCHANGED retVars
    /\ UNCHANGED engVars

\* the steps of thread i
ExecuteBackup(i) ==
    \/ ExecuteGet(i)
    \/ ExecuteRun(i)
    \/ \E raised, success \in BOOLEAN, total_count \in 0..2 : \E success_count \in 0..total_count :
          ExecuteFinish(i, [raised |-> raised, success |-> success,
                            success_count |-> success_count, total_count |-> total_count])

TaskNext ==
    \* the documented task types, and one for which _execute_backup has no branch
    LET TaskTypes == {"project", "database", "all-projects", "all-databases", "git"}
    IN  \/ \E task_type \in TaskTypes, second \in {bg.second, bg.second + 1} :
              ScheduleBackup(task_type, second)
        \/ \E i \in 1..MaxTasks : ExecuteBackup(i)

TaskInit == EngIdle /\ RetIdle /\ BatchIdle

SpecTasks == TaskInit /\ [][TaskNext]_vars

\* a started thread is scheduled again and again, and the engine call it
\* makes returns or raises
SpecTasksFair == SpecTasks /\ \A i \in 1..MaxTasks : WF_vars(ExecuteBackup(i))

\* C30: every task schedule_backup created has completed_at only in the
\* statuses COMPLETED and FAILED, its status never goes backwards in the
\* order PENDING, RUNNING, COMPLETED or FAILED, and it reaches COMPLETED or
\* FAILED
C30_TaskLifecycle ==
    /\ [](\A k \in DOMAIN bg.objs :
            bg.objs[k].completed_at # 0 => bg.objs[k].status \in {"completed", "failed"})
    /\ [][LET Rank(status) == CASE status = "pending" -> 0
                                [] status = "running" -> 1
                                [] OTHER -> 2
          IN  \A k \in DOMAIN bg.objs :
                  Rank(bg'.objs[k].status) >= Rank(bg.objs[k].status)]_vars
    /\ \A k \in 1..(MaxTasks + 1) :
          (k \in DOMAIN bg.objs) ~>
              (k \in DOMAIN bg.objs /\ bg.objs[k].status \in {"completed", "failed"})

====
